---- MODULE Spec2Model ----
(***************************************************************************)
(* A model of the analytics core of voicelearn_eval: the grade-level       *)
(* scorer (grade_levels/scorer.py), the regression detector                *)
(* (analyzer/regression.py), the statistics (analyzer/statistics.py), the  *)
(* model comparison (analyzer/comparisons.py), the deployment              *)
(* recommendation (analyzer/recommendations.py) and the trend analysis     *)
(* (analyzer/trends.py); and of two services of the server process: the    *)
(* evaluation orchestrator (core/orchestrator.py) and the model download   *)
(* service (services/download.py), whose coroutines interleave at their    *)
(* awaits.                                                                 *)
(*                                                                         *)
(* Conventions.                                                            *)
(*  - An exception is an outcome: <<e, "raised">> for the exception e.     *)
(*  - A Python value that may be None is a tuple: <<>> is None and <<v>>   *)
(*    is the value v.  A string that may be absent is "" (Python treats    *)
(*    None and "" alike in `a or b`).                                      *)
(*  - Scores are integer points 0..ScoreMax.  The code computes in binary  *)
(*    floating point; the model computes the same expressions exactly,     *)
(*    a quotient being kept as a reduced fraction [num, den] and a         *)
(*    comparison of a quotient with a number being cross-multiplied.       *)
(*  - round(x, k) is modelled as rounding the exact value half-to-even to  *)
(*    k decimals, the result being held in units of 10^-k.                 *)
(***************************************************************************)
EXTENDS Integers, Sequences, FiniteSets, TLC

VARIABLES
    cls_args,          \* arguments of one _classify_severity call
    cls_severity,      \* its return value, <<>> before the call
    current_results,   \* detect_regressions: current_results
    baseline_results,  \* detect_regressions: baseline_results
    regression,        \* check_regression's response, <<>> before the call
    task_results,      \* scorer: the task_results argument
    tier_arg,          \* calculate_tier_score: the tier argument
    tier_scores_arg,   \* get_max_passing_tier: the tier_scores argument
    threshold_arg,     \* scorer: the threshold argument
    scored,            \* scorer: the value returned, <<>> before the call
    model_results,     \* compare_model_results: the model_results argument
    comparison,        \* its return value, <<>> before the call
    rec_model,         \* recommend_deployment: the model argument
    rec_run,           \* recommend_deployment: the run argument
    rec_grade_rating,  \* recommend_deployment: the grade_rating argument
    recommendation,    \* its return value, <<>> before the call
    runs_arg,          \* analyze_trends: the runs argument
    window_size_arg,   \* analyze_trends: the window_size argument
    trends,            \* its return value, <<>> before the call
    ma_values,         \* _moving_average: the values argument
    ma_window,         \* _moving_average: the window argument
    ma_result,         \* its return value, <<>> before the call
    anomaly_scores,    \* detect_anomalies: the scores argument
    std_threshold_arg, \* detect_anomalies: std_threshold, in halves
    anomalies,         \* its return value, <<>> before the call
    stat_results,      \* aggregate_scores, score_by_category: results
    category_key_arg,  \* score_by_category: the category_key argument
    aggregated,        \* aggregate_scores' return value, <<>> before the call
    by_category,       \* score_by_category's return value, <<>> before the call
    pct_scores,        \* percentile: the scores argument
    pct_p,             \* percentile: the p argument
    pct_result,        \* its return value, <<>> before the call
    session_given,     \* the arguments the callers of a session hold, as handed over
    session_log,       \* the invocations of a session: operation, process, output
    set_order,         \* per interpreter process: the iteration order of the tier set
    eval_request,      \* start_evaluation: what its lookups find; <<>> without a call
    plugin_outcomes,   \* how plugin.run_evaluation ends for each task of the suite
    eval_pc,           \* start_evaluation: the step the coroutine is at
    eval_task_index,   \* _execute_run: the loop index i, plus one
    all_task_results,  \* _execute_run: the local list all_task_results
    eval_outcome,      \* start_evaluation: the run id returned or the exception raised
    eval_error,        \* the exception that escaped _execute_run, "" if none
    stored_results,    \* storage: the rows of eval_task_results
    run_record,        \* storage: the row of eval_runs, <<>> before create_run
    cancel_pc,         \* cancel_run: the step the coroutine is at
    cancel_target,     \* cancel_run: the run_id argument
    cancel_seen,       \* cancel_run: the status get_run returned, <<>> for no run
    dl_source,         \* the model row: which check of start_download it fails, if any
    dl_status,         \* the model row: download_status
    dl_active,         \* DownloadService._active[model_id]: the event registered, <<>> if none
    dl_event_set,      \* for each cancel event (one per background task): is it set
    dl_start_pc,       \* for each caller of start_download: the step it is at
    dl_start_outcome,  \* for each caller: how its last start_download ended
    dl_task_pc,        \* for each background task _run_download: the step it is at
    dl_task_result     \* for each background task: how _download_sync ended

clsVars == <<cls_args, cls_severity>>
regVars == <<current_results, baseline_results, regression>>
scorerVars == <<task_results, tier_arg, tier_scores_arg, threshold_arg, scored>>
cmpVars == <<model_results, comparison>>
recVars == <<rec_model, rec_run, rec_grade_rating, recommendation>>
trendVars == <<runs_arg, window_size_arg, trends>>
maVars == <<ma_values, ma_window, ma_result>>
anomVars == <<anomaly_scores, std_threshold_arg, anomalies>>
analyzerVars == <<cmpVars, recVars, trendVars, maVars, anomVars>>
statsVars == <<stat_results, category_key_arg, aggregated, by_category,
               pct_scores, pct_p, pct_result>>
sessionVars == <<session_given, session_log, set_order>>
runVars == <<eval_request, plugin_outcomes, eval_pc, eval_task_index, all_task_results,
             eval_outcome, eval_error, stored_results, run_record>>
cancelVars == <<cancel_pc, cancel_target, cancel_seen>>
orchestratorVars == <<runVars, cancelVars>>
downloadVars == <<dl_source, dl_status, dl_active, dl_event_set, dl_start_pc,
                  dl_start_outcome, dl_task_pc, dl_task_result>>
platformVars == <<sessionVars, orchestratorVars, downloadVars>>
vars == <<cls_args, cls_severity, current_results, baseline_results, regression,
          task_results, tier_arg, tier_scores_arg, threshold_arg, scored,
          model_results, comparison, rec_model, rec_run, rec_grade_rating, recommendation,
          runs_arg, window_size_arg, trends, ma_values, ma_window, ma_result,
          anomaly_scores, std_threshold_arg, anomalies,
          stat_results, category_key_arg, aggregated, by_category,
          pct_scores, pct_p, pct_result,
          session_given, session_log, set_order,
          eval_request, plugin_outcomes, eval_pc, eval_task_index, all_task_results,
          eval_outcome, eval_error, stored_results, run_record,
          cancel_pc, cancel_target, cancel_seen,
          dl_source, dl_status, dl_active, dl_event_set, dl_start_pc,
          dl_start_outcome, dl_task_pc, dl_task_result>>

----------------------------------------------------------------------------
(* Bounds of the model *)

\* scores are points 0..ScoreMax
ScoreMax == 100
\* longest current result list drawn
MaxCurrent == 3
\* longest baseline result list drawn
MaxBaseline == 2
\* longest result list given to calculate_tier_score
MaxTierResults == 3
\* longest result list given to compute_grade_level_rating
MaxRatingResults == 4
\* longest model_results list given to compare_model_results
MaxModels == 3
\* longest runs list given to analyze_trends
MaxRuns == 4
\* longest series and largest window given to _moving_average
MaxSeries == 5
MaxWindow == 3
\* longest series given to detect_anomalies
MaxAnomalySeries == 6

----------------------------------------------------------------------------
(* Generic helpers *)

None == <<>>
Some(v) == <<v>>
IsNone(x) == x = <<>>
Val(x) == x[1]

\* all sequences over S of length at most n
SeqsUpTo(S, n) == UNION {[1..k -> S] : k \in 0..n}

\* round(n/d, 0) for d > 0, half to even (Python's round)
RoundHalfEven(n, d) ==
    LET q == n \div d
        r == n - q * d
    IN  IF 2 * r < d THEN q
        ELSE IF 2 * r > d THEN q + 1
        ELSE IF q % 2 = 0 THEN q ELSE q + 1

----------------------------------------------------------------------------
(* analyzer/regression.py *)

SEV_NONE == "none"
SEV_MINOR == "minor"
SEV_MODERATE == "moderate"
SEV_SEVERE == "severe"
SEV_CRITICAL == "critical"
RegressionSeverity == {SEV_NONE, SEV_MINOR, SEV_MODERATE, SEV_SEVERE, SEV_CRITICAL}

\* the default of detect_regressions' threshold parameter
DETECT_THRESHOLD == 70

\* faulty variant of DeltaPctAbove: the boundary is inclusive
DeltaPctAtLeast(current, baseline, k) ==
    IF baseline # 0 THEN (baseline - current) * 100 >= k * baseline ELSE 0 > k

\* delta_pct > k, for delta_pct = ((baseline - current) / baseline) * 100 if
\* baseline != 0 else 0, with baseline >= 0
DeltaPctAbove(current, baseline, k) ==
    IF baseline # 0 THEN (baseline - current) * 100 > k * baseline ELSE 0 > k

\* faulty variant of classify_severity: SEVERE is tested before CRITICAL
classify_severity_swapped(current, baseline, threshold) ==
    IF current >= baseline THEN SEV_NONE
    ELSE IF DeltaPctAbove(current, baseline, 15) THEN SEV_SEVERE
    ELSE IF baseline >= threshold /\ current < threshold THEN SEV_CRITICAL
    ELSE IF DeltaPctAbove(current, baseline, 5) THEN SEV_MODERATE
    ELSE IF DeltaPctAbove(current, baseline, 0) THEN SEV_MINOR
    ELSE SEV_NONE

classify_severity(current, baseline, threshold) ==
    IF current >= baseline THEN SEV_NONE
    ELSE IF baseline >= threshold /\ current < threshold THEN SEV_CRITICAL
    ELSE IF DeltaPctAbove(current, baseline, 15) THEN SEV_SEVERE
    ELSE IF DeltaPctAbove(current, baseline, 5) THEN SEV_MODERATE
    ELSE IF DeltaPctAbove(current, baseline, 0) THEN SEV_MINOR
    ELSE SEV_NONE

\* r.get("task_name") or r.get("benchmark_id") or ""
ResultKey(r) == IF r.task_name # "" THEN r.task_name ELSE r.benchmark_id

\* the dict baseline_by_task: a later result replaces an earlier one of the
\* same key, a result without a key is not indexed
baseline_by_task(baseline) ==
    LET keyed == {i \in 1..Len(baseline) : ResultKey(baseline[i]) # ""}
        keys == {ResultKey(baseline[i]) : i \in keyed}
        last(k) == CHOOSE i \in keyed :
                      /\ ResultKey(baseline[i]) = k
                      /\ \A j \in keyed : ResultKey(baseline[j]) = k => j <= i
    IN  [k \in keys |-> baseline[last(k)]]

\* whether the loop body reaches the append for this current result
IsCompared(result, by_task) ==
    /\ ~IsNone(result.score)
    /\ ResultKey(result) # ""
    /\ ResultKey(result) \in DOMAIN by_task
    /\ ~IsNone(by_task[ResultKey(result)].score)

\* the dict appended for one compared result; delta_percent is in tenths
TaskRegression(result, by_task, threshold) ==
    LET key == ResultKey(result)
        current_score == Val(result.score)
        baseline_score == Val(by_task[key].score)
        delta == current_score - baseline_score
    IN  [task_name |-> key,
         current_score |-> current_score,
         baseline_score |-> baseline_score,
         delta |-> delta,
         delta_percent |-> IF baseline_score # 0
                           THEN RoundHalfEven(delta * 1000, baseline_score)
                           ELSE 0,
         severity |-> classify_severity(current_score, baseline_score, threshold),
         education_tier |-> result.education_tier]

\* task_regressions after the loop over current_results, before the sort
RECURSIVE compare_loop(_, _, _)
compare_loop(current, by_task, threshold) ==
    IF current = <<>> THEN <<>>
    ELSE LET n == Len(current)
             before == compare_loop(SubSeq(current, 1, n - 1), by_task, threshold)
         IN  IF IsCompared(current[n], by_task)
             THEN Append(before, TaskRegression(current[n], by_task, threshold))
             ELSE before

severity_order(s) ==
    CASE s = SEV_CRITICAL -> 0
      [] s = SEV_SEVERE -> 1
      [] s = SEV_MODERATE -> 2
      [] s = SEV_MINOR -> 3
      [] s = SEV_NONE -> 4
      [] OTHER -> 99

\* insert t behind every entry whose key is not greater: one step of a stable sort
RECURSIVE InsertStable(_, _)
InsertStable(sorted, t) ==
    IF sorted = <<>> THEN <<t>>
    ELSE LET n == Len(sorted)
         IN  IF severity_order(sorted[n].severity) <= severity_order(t.severity)
             THEN Append(sorted, t)
             ELSE Append(InsertStable(SubSeq(sorted, 1, n - 1), t), sorted[n])

\* faulty variant of InsertStable: t goes in front of the entries of its own rank
RECURSIVE InsertUnstable(_, _)
InsertUnstable(sorted, t) ==
    IF sorted = <<>> THEN <<t>>
    ELSE LET n == Len(sorted)
         IN  IF severity_order(sorted[n].severity) < severity_order(t.severity)
             THEN Append(sorted, t)
             ELSE Append(InsertUnstable(SubSeq(sorted, 1, n - 1), t), sorted[n])

\* faulty variant of sort_by_severity: equal ranks come out in reverse order
RECURSIVE sort_by_severity_unstable(_)
sort_by_severity_unstable(tasks) ==
    IF tasks = <<>> THEN <<>>
    ELSE LET n == Len(tasks)
         IN  InsertUnstable(sort_by_severity_unstable(SubSeq(tasks, 1, n - 1)), tasks[n])

\* task_regressions.sort(key=severity_order): list.sort is stable
RECURSIVE sort_by_severity(_)
sort_by_severity(tasks) ==
    IF tasks = <<>> THEN <<>>
    ELSE LET n == Len(tasks)
         IN  InsertStable(sort_by_severity(SubSeq(tasks, 1, n - 1)), tasks[n])

RECURSIVE SumDelta(_)
SumDelta(tasks) ==
    IF tasks = <<>> THEN 0
    ELSE tasks[Len(tasks)].delta + SumDelta(SubSeq(tasks, 1, Len(tasks) - 1))

\* faulty variant of CountRegressed: MINOR entries are not counted
CountRegressed_above_minor(tasks) ==
    Cardinality({i \in 1..Len(tasks) : tasks[i].severity \notin {SEV_NONE, SEV_MINOR}})

\* the number of appended entries for which regression_count was incremented
CountRegressed(tasks) ==
    Cardinality({i \in 1..Len(tasks) : tasks[i].severity # SEV_NONE})

\* faulty variant of overall_severity_of: the SEVERE branch is missing
overall_severity_no_severe(severities, regression_count, matched_count) ==
    IF SEV_CRITICAL \in severities THEN SEV_CRITICAL
    ELSE IF 2 * regression_count > matched_count THEN SEV_MODERATE
    ELSE IF regression_count > 0 THEN SEV_MINOR
    ELSE SEV_NONE

\* faulty variant of overall_severity_of: half of the tasks is enough for MODERATE
overall_severity_no_ratio(severities, regression_count, matched_count) ==
    IF SEV_CRITICAL \in severities THEN SEV_CRITICAL
    ELSE IF SEV_SEVERE \in severities THEN SEV_SEVERE
    ELSE IF 2 * regression_count >= matched_count /\ regression_count > 0 THEN SEV_MODERATE
    ELSE IF regression_count > 0 THEN SEV_MINOR
    ELSE SEV_NONE

\* the if/elif chain that sets overall_severity;
\* regression_count > matched_count * 0.5 is 2 * regression_count > matched_count
overall_severity_of(severities, regression_count, matched_count) ==
    IF SEV_CRITICAL \in severities THEN SEV_CRITICAL
    ELSE IF SEV_SEVERE \in severities THEN SEV_SEVERE
    ELSE IF 2 * regression_count > matched_count THEN SEV_MODERATE
    ELSE IF regression_count > 0 THEN SEV_MINOR
    ELSE SEV_NONE

\* the returned dict; average_delta is in hundredths
detect_regressions(current, baseline, threshold) ==
    LET by_task == baseline_by_task(baseline)
        appended == compare_loop(current, by_task, threshold)
        task_regressions == sort_by_severity(appended)
        regression_count == CountRegressed(appended)
        matched_count == Len(task_regressions)
        severities == {task_regressions[i].severity : i \in 1..matched_count}
    IN  [has_regression |-> regression_count > 0,
         overall_severity |-> overall_severity_of(severities, regression_count, matched_count),
         regression_count |-> regression_count,
         total_tasks_compared |-> matched_count,
         average_delta |-> IF matched_count > 0
                           THEN RoundHalfEven(SumDelta(appended) * 100, matched_count)
                           ELSE 0,
         tasks |-> task_regressions]

\* faulty variant of ci_exit_code: SEVERE only warns
ci_exit_code_warn_only(regression_result) ==
    IF regression_result.overall_severity = SEV_CRITICAL THEN 2
    ELSE IF regression_result.overall_severity \in {SEV_SEVERE, SEV_MODERATE, SEV_MINOR} THEN 1
    ELSE 0

ci_exit_code(regression_result) ==
    IF regression_result.overall_severity \in {SEV_CRITICAL, SEV_SEVERE} THEN 2
    ELSE IF regression_result.overall_severity \in {SEV_MODERATE, SEV_MINOR} THEN 1
    ELSE 0

----------------------------------------------------------------------------
(* grade_levels/tiers.py and grade_levels/scorer.py *)

ELEMENTARY == "elementary"
HIGH_SCHOOL == "highschool"
UNDERGRADUATE == "undergrad"
GRADUATE == "grad"

TIER_ORDER == <<ELEMENTARY, HIGH_SCHOOL, UNDERGRADUATE, GRADUATE>>

\* TIER_WEIGHTS, in tenths
TIER_WEIGHTS(tier) ==
    CASE tier = ELEMENTARY -> 10
      [] tier = HIGH_SCHOOL -> 10
      [] tier = UNDERGRADUATE -> 8
      [] tier = GRADUATE -> 6
      [] OTHER -> 10

DEFAULT_THRESHOLD == 70

RECURSIVE GCD(_, _)
GCD(a, b) == IF b = 0 THEN a ELSE GCD(b, a % b)

\* the quotient n / d, d # 0, as a reduced fraction with a positive denominator
Quotient(n, d) ==
    LET sn == IF d < 0 THEN 0 - n ELSE n
        sd == IF d < 0 THEN 0 - d ELSE d
        g == GCD(IF sn < 0 THEN 0 - sn ELSE sn, sd)
    IN  [num |-> sn \div g, den |-> sd \div g]

\* the float 0.0
Zero == [num |-> 0, den |-> 1]

\* t.get("weight", 1.0)
WeightOf(t) == IF IsNone(t.weight) THEN 1 ELSE Val(t.weight)

\* t.get("task_name", t.get("name", "Unknown"))
NameOf(t) ==
    IF ~IsNone(t.task_name) THEN Val(t.task_name)
    ELSE IF ~IsNone(t.name) THEN Val(t.name)
    ELSE "Unknown"

RECURSIVE SumWeights(_)
SumWeights(tasks) ==
    IF tasks = <<>> THEN 0
    ELSE WeightOf(tasks[Len(tasks)]) + SumWeights(SubSeq(tasks, 1, Len(tasks) - 1))

RECURSIVE SumWeighted(_)
SumWeighted(tasks) ==
    IF tasks = <<>> THEN 0
    ELSE Val(tasks[Len(tasks)].score) * WeightOf(tasks[Len(tasks)])
           + SumWeighted(SubSeq(tasks, 1, Len(tasks) - 1))

\* faulty variant of calculate_tier_score: the plain mean, weights ignored
calculate_tier_score_unweighted(results, tier) ==
    LET tier_tasks == SelectSeq(results,
                          LAMBDA r : r.education_tier = tier /\ ~IsNone(r.score))
        total_weight == SumWeights(tier_tasks)
        plain_sum == SumWeighted([i \in 1..Len(tier_tasks) |->
                                     [tier_tasks[i] EXCEPT !.weight = None]])
    IN  IF tier_tasks = <<>> \/ total_weight = 0
        THEN [score |-> Zero, breakdown |-> <<>>]
        ELSE [score |-> Quotient(plain_sum, Len(tier_tasks)),
              breakdown |-> [i \in 1..Len(tier_tasks) |->
                               [task_name |-> NameOf(tier_tasks[i]),
                                score |-> Val(tier_tasks[i].score),
                                weight |-> WeightOf(tier_tasks[i])]]]

\* returns (score, breakdown)
calculate_tier_score(results, tier) ==
    LET tier_tasks == SelectSeq(results,
                          LAMBDA r : r.education_tier = tier /\ ~IsNone(r.score))
        total_weight == SumWeights(tier_tasks)
    IN  IF tier_tasks = <<>> THEN [score |-> Zero, breakdown |-> <<>>]
        ELSE IF total_weight = 0 THEN [score |-> Zero, breakdown |-> <<>>]
        ELSE [score |-> Quotient(SumWeighted(tier_tasks), total_weight),
              breakdown |-> [i \in 1..Len(tier_tasks) |->
                               [task_name |-> NameOf(tier_tasks[i]),
                                score |-> Val(tier_tasks[i].score),
                                weight |-> WeightOf(tier_tasks[i])]]]

\* score >= threshold
assess_tier(score, thr) == score.num >= thr * score.den

\* faulty variant of walk_tiers: an absent tier is skipped instead of ending the walk
RECURSIVE walk_tiers_skipping(_, _, _, _)
walk_tiers_skipping(tier_scores, thr, i, max_tier) ==
    IF i > Len(TIER_ORDER) THEN max_tier
    ELSE IF TIER_ORDER[i] \in DOMAIN tier_scores
         THEN IF assess_tier(tier_scores[TIER_ORDER[i]], thr)
              THEN walk_tiers_skipping(tier_scores, thr, i + 1, Some(TIER_ORDER[i]))
              ELSE max_tier
         ELSE walk_tiers_skipping(tier_scores, thr, i + 1, max_tier)

\* the for loop of get_max_passing_tier from TIER_ORDER[i] on
RECURSIVE walk_tiers(_, _, _, _)
walk_tiers(tier_scores, thr, i, max_tier) ==
    IF i > Len(TIER_ORDER) THEN max_tier
    ELSE IF /\ TIER_ORDER[i] \in DOMAIN tier_scores
            /\ assess_tier(tier_scores[TIER_ORDER[i]], thr)
         THEN walk_tiers(tier_scores, thr, i + 1, Some(TIER_ORDER[i]))
         ELSE max_tier

\* faulty variant of get_max_passing_tier, by walk_tiers_skipping
get_max_passing_tier_skipping(tier_scores, thr) ==
    walk_tiers_skipping(tier_scores, thr, 1, None)

get_max_passing_tier(tier_scores, thr) == walk_tiers(tier_scores, thr, 1, None)

\* weighted_sum and total_weight of calculate_overall_education_score after
\* the first i tiers, the weights in tenths
RECURSIVE overall_sums(_, _)
overall_sums(tier_scores, i) ==
    IF i = 0 THEN [weighted_sum |-> Zero, total_weight |-> 0]
    ELSE LET before == overall_sums(tier_scores, i - 1)
             tier == TIER_ORDER[i]
         IN  IF tier \in DOMAIN tier_scores
             THEN LET weight == TIER_WEIGHTS(tier)
                      s == tier_scores[tier]
                  IN  [weighted_sum |->
                          Quotient(before.weighted_sum.num * s.den
                                     + s.num * weight * before.weighted_sum.den,
                                   before.weighted_sum.den * s.den),
                       total_weight |-> before.total_weight + weight]
             ELSE before

\* faulty variant of calculate_overall_education_score: the weights of the
\* absent tiers stay in the denominator
calculate_overall_education_score_all_tiers(tier_scores) ==
    LET sums == overall_sums(tier_scores, Len(TIER_ORDER))
        all_weight == TIER_WEIGHTS(ELEMENTARY) + TIER_WEIGHTS(HIGH_SCHOOL)
                        + TIER_WEIGHTS(UNDERGRADUATE) + TIER_WEIGHTS(GRADUATE)
    IN  IF sums.total_weight = 0 THEN Zero
        ELSE Quotient(sums.weighted_sum.num, sums.weighted_sum.den * all_weight)

calculate_overall_education_score(tier_scores) ==
    LET sums == overall_sums(tier_scores, Len(TIER_ORDER))
    IN  IF sums.total_weight = 0 THEN Zero
        ELSE Quotient(sums.weighted_sum.num, sums.weighted_sum.den * sums.total_weight)

\* faulty variant of rated_tiers: every tier that has a task, scored or not
rated_tiers_any_task(results) ==
    {TIER_ORDER[i] : i \in {j \in 1..Len(TIER_ORDER) :
        \E k \in 1..Len(results) : results[k].education_tier = TIER_ORDER[j]}}

\* the keys compute_grade_level_rating puts in tier_scores and tier_details
rated_tiers(results) ==
    {TIER_ORDER[i] : i \in {j \in 1..Len(TIER_ORDER) :
        calculate_tier_score(results, TIER_ORDER[j]).breakdown # <<>>}}

\* the GradeLevelRating returned (model_id and run_id are passed through)
compute_grade_level_rating(results, thr) ==
    LET keys == rated_tiers(results)
        tier_scores == [t \in keys |-> calculate_tier_score(results, t).score]
        tier_details == [t \in keys |-> calculate_tier_score(results, t).breakdown]
    IN  [tier_scores |-> tier_scores,
         max_passing_tier |-> get_max_passing_tier(tier_scores, thr),
         tier_details |-> tier_details,
         threshold |-> thr,
         overall_education_score |-> calculate_overall_education_score(tier_scores)]

----------------------------------------------------------------------------
(* analyzer/statistics.py *)
(*                                                                         *)
(* The statistics are returned rounded to 2 decimals; the model holds them *)
(* in hundredths of a point.  math.sqrt is modelled by the exact square    *)
(* root: a rounded root is found by integer square root and an exact       *)
(* comparison of fractions, both kept below 2^31.                          *)

\* a task result row as the analyzer reads it; education_tier "" is None
ResultRow(task_name, tier, score) ==
    [task_name |-> task_name, education_tier |-> tier, score |-> score]

\* faulty variant of non_null_scores: a null score counts as 0
non_null_scores_nulls_as_zero(results) ==
    [i \in 1..Len(results) |->
        IF IsNone(results[i].score) THEN 0 ELSE Val(results[i].score)]

\* [r["score"] for r in results if r.get("score") is not None]
RECURSIVE non_null_scores(_)
non_null_scores(results) ==
    IF results = <<>> THEN <<>>
    ELSE IF IsNone(Head(results).score) THEN non_null_scores(Tail(results))
    ELSE <<Val(Head(results).score)>> \o non_null_scores(Tail(results))

RECURSIVE SumSeq(_)
SumSeq(xs) == IF xs = <<>> THEN 0 ELSE Head(xs) + SumSeq(Tail(xs))

RECURSIVE SumSquares(_)
SumSquares(xs) == IF xs = <<>> THEN 0 ELSE Head(xs) * Head(xs) + SumSquares(Tail(xs))

RECURSIVE InsertSorted(_, _)
InsertSorted(x, xs) ==
    IF xs = <<>> THEN <<x>>
    ELSE IF x < Head(xs) THEN <<x>> \o xs
    ELSE <<Head(xs)>> \o InsertSorted(x, Tail(xs))

\* sorted(scores)
RECURSIVE sorted_scores(_)
sorted_scores(xs) ==
    IF xs = <<>> THEN <<>> ELSE InsertSorted(Head(xs), sorted_scores(Tail(xs)))

\* the integer part of math.sqrt(n), n >= 0
RECURSIVE ISqrt(_)
ISqrt(n) ==
    IF n < 2 THEN n
    ELSE LET r == 2 * ISqrt(n \div 4)
         IN  IF (r + 1) * (r + 1) <= n THEN r + 1 ELSE r

\* a / b <= c / d for a, c >= 0 and b, d > 0, without forming the products
RECURSIVE LeqFrac(_, _, _, _)
LeqFrac(a, b, c, d) ==
    LET qa == a \div b
        qc == c \div d
        ra == a % b
        rc == c % d
    IN  IF qa # qc THEN qa < qc
        ELSE IF ra = 0 THEN TRUE
        ELSE IF rc = 0 THEN FALSE
        ELSE LeqFrac(d, rc, b, ra)

\* the integer part of 10^digits * r / d for 0 <= r < d, by long division
RECURSIVE DecimalFloor(_, _, _)
DecimalFloor(r, d, digits) ==
    IF digits = 0 THEN 0
    ELSE ((10 * r) \div d) * (10 ^ (digits - 1)) + DecimalFloor((10 * r) % d, d, digits - 1)

\* round(math.sqrt(n / d), 2) in hundredths, n >= 0 and d > 0: the root of
\* the integer part of 40000 * n / d, halved and rounded
RoundedSqrt(n, d) ==
    LET r4 == 4 * (n % d)
        scaled == 40000 * (n \div d) + 10000 * (r4 \div d) + DecimalFloor(r4 % d, d, 4)
    IN  (ISqrt(scaled) + 1) \div 2

\* floor(c + sign * sqrt(m)) where c = cn / cd is in [1/2, 3/2), m = mn / md,
\* sign is 1 or -1: the greatest integer h with h - c <= sign * sqrt(m)
FloorWithRoot(cn, cd, mn, md, sign) ==
    LET k == ISqrt(mn \div md)
        \* h <= c + sign * sqrt(m), u being (h * cd - cn), the sign of h - c
        Below(h) ==
            LET u == h * cd - cn
            IN  IF sign = 1
                THEN u <= 0 \/ LeqFrac(u * u, cd * cd, mn, md)
                ELSE u <= 0 /\ LeqFrac(mn, md, u * u, cd * cd)
        base == IF sign = 1 THEN k ELSE 0 - k - 1
    IN  IF Below(base + 2) THEN base + 2
        ELSE IF Below(base + 1) THEN base + 1
        ELSE base

\* aggregate_scores(results)
aggregate_scores(results) ==
    LET scores == non_null_scores(results)
        n == Len(scores)
    IN  IF n = 0
        THEN [mean |-> None, median |-> None, std_dev |-> None, min |-> None,
              max |-> None, count |-> 0, confidence_interval_95 |-> None]
        ELSE
            LET total == SumSeq(scores)
                ordered == sorted_scores(scores)
                median == IF n % 2 = 0
                          THEN 50 * (ordered[n \div 2] + ordered[n \div 2 + 1])
                          ELSE 100 * ordered[n \div 2 + 1]
                \* variance = var_num / var_den
                var_num == n * SumSquares(scores) - total * total
                var_den == n * (IF n - 1 > 1 THEN n - 1 ELSE 1)
                \* 100 * mean = whole + part / n
                whole == (100 * total) \div n
                part == (100 * total) % n
                \* (100 * margin)^2 = 196^2 * variance / n = m_num / m_den,
                \* reduced to keep the numerator small
                g1 == GCD(var_num, var_den * n)
                g2 == GCD(38416, (var_den * n) \div g1)
                m_num == (38416 \div g2) * (var_num \div g1)
                m_den == ((var_den * n) \div g1) \div g2
                ci_low == whole + FloorWithRoot(2 * part + n, 2 * n, m_num, m_den, 0 - 1)
                ci_high == whole + FloorWithRoot(2 * part + n, 2 * n, m_num, m_den, 1)
            IN  [mean |-> Some(RoundHalfEven(100 * total, n)),
                 median |-> Some(median),
                 std_dev |-> Some(RoundedSqrt(var_num, var_den)),
                 min |-> Some(100 * ordered[1]),
                 max |-> Some(100 * ordered[n]),
                 count |-> n,
                 confidence_interval_95 |->
                    IF n > 1 THEN Some(<<ci_low, ci_high>>)
                    ELSE Some(<<RoundHalfEven(100 * total, n),
                                RoundHalfEven(100 * total, n)>>)]

\* faulty variant of category_of: a missing key is read as None
category_of_missing_as_none(r, category_key) ==
    IF category_key \in DOMAIN r THEN r[category_key] ELSE ""

\* r.get(category_key, "unknown"); a row is a dict, the key may be missing
category_of(r, category_key) ==
    IF category_key \in DOMAIN r THEN r[category_key] ELSE "unknown"

\* score_by_category(results, category_key): the statistics of each group
\* of results, keyed by the category ("" is the key None)
score_by_category(results, category_key) ==
    LET cats == {category_of(results[i], category_key) : i \in 1..Len(results)}
    IN  [cat \in cats |->
            aggregate_scores(SelectSeq(results,
                                       LAMBDA r : category_of(r, category_key) = cat))]

\* faulty variant of percentile: interpolates in the list as given
percentile_unsorted(scores, p) ==
    IF scores = <<>> THEN Zero
    ELSE
        LET whole == (p * (Len(scores) - 1)) \div 100
            part == (p * (Len(scores) - 1)) % 100
        IN  IF part = 0 THEN Quotient(scores[whole + 1], 1)
            ELSE Quotient(scores[whole + 1] * (100 - part) + scores[whole + 2] * part,
                          100)

\* percentile(scores, p) for p a whole number of percent, as an exact
\* fraction: k = (p / 100) * (len - 1) = whole + part / 100
percentile(scores, p) ==
    IF scores = <<>> THEN Zero
    ELSE
        LET ordered == sorted_scores(scores)
            whole == (p * (Len(ordered) - 1)) \div 100
            part == (p * (Len(ordered) - 1)) % 100
        IN  IF part = 0 THEN Quotient(ordered[whole + 1], 1)
            ELSE Quotient(ordered[whole + 1] * (100 - part) + ordered[whole + 2] * part,
                          100)

----------------------------------------------------------------------------
(* analyzer/comparisons.py *)

\* the strings of the model in the order of Python's string comparison
Alphabet ==
    <<"elementary", "grad", "highschool", "kindergarten", "preschool",
      "t1", "t2", "t3", "undergrad">>

StrRank(str) == CHOOSE i \in 1..Len(Alphabet) : Alphabet[i] = str

\* a < b on strings
StrLess(a, b) == StrRank(a) < StrRank(b)

\* all orders in which the elements of a set can be iterated
RECURSIVE Orders(_)
Orders(S) ==
    IF S = {} THEN {<<>>}
    ELSE UNION {{<<x>> \o rest : rest \in Orders(S \ {x})} : x \in S}

\* order = ["elementary", "high_school", "undergraduate", "graduate"]
RADAR_ORDER == <<"elementary", "high_school", "undergraduate", "graduate">>

\* order.index(t) if t in order else 99
radar_key(t) ==
    IF \E i \in 1..Len(RADAR_ORDER) : RADAR_ORDER[i] = t
    THEN (CHOOSE i \in 1..Len(RADAR_ORDER) : RADAR_ORDER[i] = t) - 1
    ELSE 99

\* the truthy values of a field over the results of all entries
FieldValues(entries, field) ==
    {v \in UNION {{entries[i].results[j][field] : j \in 1..Len(entries[i].results)} :
                      i \in 1..Len(entries)} : v # ""}

RECURSIVE InsertAlphabetical(_, _)
InsertAlphabetical(x, xs) ==
    IF xs = <<>> THEN <<x>>
    ELSE IF StrLess(x, Head(xs)) THEN <<x>> \o xs
    ELSE <<Head(xs)>> \o InsertAlphabetical(x, Tail(xs))

\* sorted(names) of a set of strings
RECURSIVE sorted_names(_)
sorted_names(S) ==
    IF S = {} THEN <<>>
    ELSE LET x == CHOOSE x \in S : TRUE
         IN  InsertAlphabetical(x, sorted_names(S \ {x}))

\* the lists _get_radar_dimensions can return: sorted() is stable and takes
\* the tiers in the iteration order of a set of strings, which depends on the
\* hash seed of the process, so tiers of equal key come out in any order
get_radar_dimensions(entries) ==
    LET tiers == FieldValues(entries, "education_tier")
    IN  IF tiers # {}
        THEN {dims \in Orders(tiers) :
                \A i \in 1..Len(dims) : \A j \in i..Len(dims) :
                    radar_key(dims[i]) <= radar_key(dims[j])}
        ELSE {sorted_names(FieldValues(entries, "task_name"))}

\* a model record
ModelRecord(id, name, is_reference, parameter_count_b) ==
    [id |-> id, name |-> name, model_type |-> "llm", is_reference |-> is_reference,
     parameter_count_b |-> parameter_count_b]

\* one entry of model_results; run is None or a run record whose
\* overall_score is None or a number of points
ModelResult(model, results, run) == [model |-> model, results |-> results, run |-> run]

\* faulty variant of reference_model_id: the last flagged entry
reference_model_id_last_flagged(entries) ==
    LET flagged == {i \in 1..Len(entries) : entries[i].model.is_reference}
    IN  IF flagged = {} THEN None
        ELSE Some(entries[CHOOSE i \in flagged : \A j \in flagged : j <= i].model.id)

\* the id of the first entry flagged is_reference (the loop breaks there)
reference_model_id(entries) ==
    LET flagged == {i \in 1..Len(entries) : entries[i].model.is_reference}
    IN  IF flagged = {} THEN None
        ELSE Some(entries[CHOOSE i \in flagged : \A j \in flagged : i <= j].model.id)

\* ref_stats: the statistics of the first entry that has the reference id
RECURSIVE reference_stats(_, _)
reference_stats(entries, ref_id) ==
    IF entries = <<>> THEN None
    ELSE IF Head(entries).model.id = ref_id THEN Some(aggregate_scores(Head(entries).results))
    ELSE reference_stats(Tail(entries), ref_id)

\* model_entry of one input entry; scores in hundredths, and
\* delta_from_reference None when the key is not set
model_entry(mr, entries) ==
    LET stats == aggregate_scores(mr.results)
        ref_id == reference_model_id(entries)
        ref_stats == IF IsNone(ref_id) THEN None ELSE reference_stats(entries, Val(ref_id))
    IN  [model_id |-> mr.model.id,
         model_name |-> mr.model.name,
         model_type |-> mr.model.model_type,
         overall |-> stats,
         by_tier |-> score_by_category(mr.results, "education_tier"),
         parameter_count_b |-> mr.model.parameter_count_b,
         run_id |-> IF IsNone(mr.run) THEN None ELSE Some(Val(mr.run).id),
         overall_score |->
            IF IsNone(mr.run) THEN stats.mean
            ELSE IF IsNone(Val(mr.run).overall_score) THEN None
            ELSE Some(100 * Val(Val(mr.run).overall_score)),
         delta_from_reference |->
            IF /\ ~IsNone(ref_id)
               /\ mr.model.id # Val(ref_id)
               /\ ~IsNone(ref_stats)
               /\ ~IsNone(Val(ref_stats).mean)
               /\ ~IsNone(stats.mean)
            THEN Some(Val(stats.mean) - Val(Val(ref_stats).mean))
            ELSE None]

\* a or b on numbers that may be None: b when a is None or 0
OrElse(a, b) == IF IsNone(a) \/ a = Some(0) THEN b ELSE a

\* m.get("overall_score") or m["overall"]["mean"] or 0
sort_key(m) == Val(OrElse(OrElse(m.overall_score, m.overall.mean), Some(0)))

\* the place of m in a list sorted by descending key: after every entry
\* whose key is not smaller (sort(reverse=True) keeps equal keys in order)
RECURSIVE InsertDescending(_, _)
InsertDescending(m, sorted) ==
    IF sorted = <<>> THEN <<m>>
    ELSE IF sort_key(Head(sorted)) >= sort_key(m)
         THEN <<Head(sorted)>> \o InsertDescending(m, Tail(sorted))
         ELSE <<m>> \o sorted

RECURSIVE sort_models(_)
sort_models(models) ==
    IF models = <<>> THEN <<>>
    ELSE InsertDescending(models[Len(models)],
                          sort_models(SubSeq(models, 1, Len(models) - 1)))

\* compare_model_results(model_results), radar_dimensions being the list
\* _get_radar_dimensions returned; summary is None for the empty dict
compare_model_results(entries, radar_dimensions) ==
    LET models == sort_models([i \in 1..Len(entries) |-> model_entry(entries[i], entries)])
    IN  [models |-> models,
         radar_dimensions |-> radar_dimensions,
         reference_model_id |-> reference_model_id(entries),
         summary |->
            IF models = <<>> THEN None
            ELSE Some([best_model |-> models[1].model_name,
                       best_score |-> OrElse(models[1].overall_score, models[1].overall.mean),
                       model_count |-> Len(models)])]

----------------------------------------------------------------------------
(* analyzer/recommendations.py *)
(*                                                                         *)
(* Parameter counts (billions) and sizes (GB) are held in tenths, scores   *)
(* and suitabilities in points.  A formatted message is a tuple of its     *)
(* template name and the values formatted into it.                         *)

\* the keys of DEPLOYMENT_TARGETS in the order the dict is iterated
TARGET_NAMES == <<"on-device", "server", "cloud-api">>

DEPLOYMENT_TARGETS(target) ==
    CASE target = "on-device" ->
            [max_params_b |-> Some(30), max_size_gb |-> Some(40), min_score |-> 60,
             description |-> "Mobile/edge device deployment"]
      [] target = "server" ->
            [max_params_b |-> Some(700), max_size_gb |-> Some(1500), min_score |-> 70,
             description |-> "Server-side deployment"]
      [] target = "cloud-api" ->
            [max_params_b |-> None, max_size_gb |-> None, min_score |-> 75,
             description |-> "Cloud API deployment"]

\* `if value and limit is not None: if value > limit`
OverBudget(value, limit) ==
    /\ ~IsNone(value) /\ Val(value) # 0
    /\ ~IsNone(limit)
    /\ Val(value) > Val(limit)

\* faulty variant of target_entry: the score check is left out
target_entry_without_score(target, params, size, score) ==
    LET constraints == DEPLOYMENT_TARGETS(target)
        over_params == OverBudget(params, constraints.max_params_b)
        over_size == OverBudget(size, constraints.max_size_gb)
        suitability == 100 - (IF over_params THEN 40 ELSE 0) - (IF over_size THEN 30 ELSE 0)
    IN  [target |-> target,
         suitability |-> IF suitability < 0 THEN 0 ELSE suitability,
         description |-> constraints.description,
         warnings |->
            (IF over_params THEN <<<<"params", Val(params), Val(constraints.max_params_b)>>>>
             ELSE <<>>)
            \o (IF over_size THEN <<<<"size", Val(size), Val(constraints.max_size_gb)>>>>
                ELSE <<>>)]

\* the entry appended to suitable_targets for one target
target_entry(target, params, size, score) ==
    LET constraints == DEPLOYMENT_TARGETS(target)
        over_params == OverBudget(params, constraints.max_params_b)
        over_size == OverBudget(size, constraints.max_size_gb)
        low_score == score < constraints.min_score
        suitability == 100 - (IF over_params THEN 40 ELSE 0) - (IF over_size THEN 30 ELSE 0)
                           - (IF low_score THEN 30 ELSE 0)
    IN  [target |-> target,
         suitability |-> IF suitability < 0 THEN 0 ELSE suitability,
         description |-> constraints.description,
         warnings |->
            (IF over_params THEN <<<<"params", Val(params), Val(constraints.max_params_b)>>>>
             ELSE <<>>)
            \o (IF over_size THEN <<<<"size", Val(size), Val(constraints.max_size_gb)>>>>
                ELSE <<>>)
            \o (IF low_score THEN <<<<"score", score, constraints.min_score>>>> ELSE <<>>)]

\* faulty variant of InsertBySuitability: t goes in front of the entries of
\* its own suitability
RECURSIVE InsertBySuitabilityUnstable(_, _)
InsertBySuitabilityUnstable(t, sorted) ==
    IF sorted = <<>> THEN <<t>>
    ELSE IF Head(sorted).suitability > t.suitability
         THEN <<Head(sorted)>> \o InsertBySuitabilityUnstable(t, Tail(sorted))
         ELSE <<t>> \o sorted

\* the place of t in a list sorted by descending suitability: after every
\* entry that is not less suitable (sort(reverse=True) keeps ties in order)
RECURSIVE InsertBySuitability(_, _)
InsertBySuitability(t, sorted) ==
    IF sorted = <<>> THEN <<t>>
    ELSE IF Head(sorted).suitability >= t.suitability
         THEN <<Head(sorted)>> \o InsertBySuitability(t, Tail(sorted))
         ELSE <<t>> \o sorted

\* faulty variant of sort_targets, by InsertBySuitabilityUnstable
RECURSIVE sort_targets_unstable(_)
sort_targets_unstable(targets) ==
    IF targets = <<>> THEN <<>>
    ELSE InsertBySuitabilityUnstable(targets[Len(targets)],
                                     sort_targets_unstable(SubSeq(targets, 1, Len(targets) - 1)))

\* suitable_targets.sort(key=lambda t: t["suitability"], reverse=True)
RECURSIVE sort_targets(_)
sort_targets(targets) ==
    IF targets = <<>> THEN <<>>
    ELSE InsertBySuitability(targets[Len(targets)],
                             sort_targets(SubSeq(targets, 1, Len(targets) - 1)))

\* tier_labels.get(max_tier, max_tier)
tier_label(max_tier) ==
    CASE max_tier = "elementary" -> "Elementary (Gr 5-8)"
      [] max_tier = "high_school" -> "High School (Gr 9-12)"
      [] max_tier = "undergraduate" -> "Undergraduate"
      [] max_tier = "graduate" -> "Graduate"
      [] OTHER -> max_tier

\* recommend_deployment(model, run, grade_rating=grade_rating); run is None
\* or a completed run, whose overall_score is a number
recommend_deployment(model, run, grade_rating) ==
    LET score == IF IsNone(run) THEN 0 ELSE Val(run).overall_score
        params == model.parameter_count_b
        size == model.model_size_gb
        max_tier == IF IsNone(grade_rating) THEN "" ELSE Val(grade_rating).max_passing_tier
        suitable_targets ==
            sort_targets([i \in 1..Len(TARGET_NAMES) |->
                            target_entry(TARGET_NAMES[i], params, size, score)])
    IN  [recommended_target |->
            IF suitable_targets # <<>> THEN suitable_targets[1].target ELSE "server",
         targets |-> suitable_targets,
         score |-> score,
         max_education_tier |-> max_tier,
         warnings |->
            (IF max_tier # "" THEN <<>>
             ELSE <<<<"Model has not passed any education tier threshold">>>>)
            \o (IF model.model_type = "stt" /\ ~IsNone(params) /\ Val(params) > 15
                THEN <<<<"Large STT models may have high latency for real-time on-device use">>>>
                ELSE <<>>),
         rationale |->
            (IF max_tier # "" THEN <<<<"Certified up to", tier_label(max_tier)>>>> ELSE <<>>)
            \o (IF model.model_type = "tts" /\ model.quantization = ""
                THEN <<<<"Consider quantization for faster TTS inference">>>>
                ELSE <<>>)]

----------------------------------------------------------------------------
(* analyzer/trends.py *)
(*                                                                         *)
(* A completion timestamp is a positive number (ISO-8601 strings compare   *)
(* as the instants they denote); None and "" are both the key "".  Values  *)
(* rounded to 2 decimals are in hundredths, change_percent in tenths.      *)

\* a run summary as analyze_trends reads it
RunSummary(model_id, completed_at, overall_score) ==
    [model_id |-> model_id, completed_at |-> completed_at, overall_score |-> overall_score]

\* r.get("completed_at") or "", the empty string being below every timestamp
date_key(r) == IF IsNone(r.completed_at) THEN 0 ELSE Val(r.completed_at)

\* the place of r in a list sorted by date: after every run that is not later
RECURSIVE InsertByDate(_, _)
InsertByDate(r, sorted) ==
    IF sorted = <<>> THEN <<r>>
    ELSE IF date_key(Head(sorted)) <= date_key(r)
         THEN <<Head(sorted)>> \o InsertByDate(r, Tail(sorted))
         ELSE <<r>> \o sorted

\* model_runs.sort(key=lambda r: r.get("completed_at") or ""): stable
RECURSIVE sort_by_date(_)
sort_by_date(model_runs) ==
    IF model_runs = <<>> THEN <<>>
    ELSE InsertByDate(model_runs[Len(model_runs)],
                      sort_by_date(SubSeq(model_runs, 1, Len(model_runs) - 1)))

\* the runs of by_model[model_id], sorted
sorted_model_runs(runs, model_id) ==
    sort_by_date(SelectSeq(runs, LAMBDA r : r.model_id = model_id))

\* the runs that have a score, in order
scored_runs(model_runs) == SelectSeq(model_runs, LAMBDA r : ~IsNone(r.overall_score))

\* values[a:b] of Python, as 1-based positions a+1..b
Slice(values, a, b) == SubSeq(values, a + 1, b)

Min2(a, b) == IF a < b THEN a ELSE b
Max2(a, b) == IF a > b THEN a ELSE b

\* an operation that ends in an exception returns nothing: its outcome is
\* held as the exception's name with a mark
ZeroDivisionError == "ZeroDivisionError"
Raised(exception) == <<exception, "raised">>
HasRaised(outcome) == Len(outcome) = 2

\* _moving_average ends in sum(window_vals) / len(window_vals) with an empty
\* window_vals: the series is longer than the window and values[start:i + 1]
\* is empty for some index
moving_average_raises(values, window) ==
    /\ Len(values) > window
    /\ \E i \in 1..Len(values) : Slice(values, Max2(0, (i - 1) - window + 1), i) = <<>>

\* faulty variant of moving_average: the mean of all points so far, always
moving_average_cumulative(values, window) ==
    [i \in 1..Len(values) |-> RoundHalfEven(100 * SumSeq(Slice(values, 0, i)), i)]

\* _moving_average(values, window), when it returns, in hundredths; i is the
\* index plus one
moving_average(values, window) ==
    IF Len(values) <= window
    THEN [i \in 1..Len(values) |-> RoundHalfEven(100 * SumSeq(Slice(values, 0, i)), i)]
    ELSE [i \in 1..Len(values) |->
            LET window_vals == Slice(values, Max2(0, (i - 1) - window + 1), i)
            IN  RoundHalfEven(100 * SumSeq(window_vals), Len(window_vals))]

\* faulty variant of trend_direction: the last score against the first
trend_direction_endpoints(scores) ==
    IF scores[Len(scores)] > scores[1] + 2 THEN "improving"
    ELSE IF scores[Len(scores)] < scores[1] - 2 THEN "declining"
    ELSE "stable"

\* faulty variant of trend_direction: a difference of exactly 2 counts
trend_direction_inclusive(scores) ==
    LET k == Min2(3, Len(scores))
        recent == SubSeq(scores, Len(scores) - k + 1, Len(scores))
        earlier == SubSeq(scores, 1, k)
    IN  IF SumSeq(recent) >= SumSeq(earlier) + 2 * k THEN "improving"
        ELSE IF SumSeq(recent) <= SumSeq(earlier) - 2 * k THEN "declining"
        ELSE "stable"

\* the direction of at least 2 scores: avg_recent against avg_earlier +/- 2,
\* both being sums over the same number k of scores
trend_direction(scores) ==
    LET k == Min2(3, Len(scores))
        recent == SubSeq(scores, Len(scores) - k + 1, Len(scores))
        earlier == SubSeq(scores, 1, k)
    IN  IF SumSeq(recent) > SumSeq(earlier) + 2 * k THEN "improving"
        ELSE IF SumSeq(recent) < SumSeq(earlier) - 2 * k THEN "declining"
        ELSE "stable"

\* faulty variant of model_trend: three scores are needed for a direction
model_trend_three_points(model_runs, window_size) ==
    LET with_score == scored_runs(model_runs)
        scores == [i \in 1..Len(with_score) |-> Val(with_score[i].overall_score)]
        dates == [i \in 1..Len(with_score) |-> with_score[i].completed_at]
    IN  IF Len(scores) < 3
        THEN [direction |-> "insufficient_data",
              data_points |-> Len(scores),
              scores |-> scores,
              dates |-> dates,
              moving_average |-> [i \in 1..Len(scores) |-> 100 * scores[i]],
              change |-> None,
              change_percent |-> None]
        ELSE [direction |-> trend_direction(scores),
              data_points |-> Len(scores),
              scores |-> scores,
              dates |-> dates,
              moving_average |-> moving_average(scores, window_size),
              change |-> Some(100 * (scores[Len(scores)] - scores[1])),
              change_percent |->
                 Some(IF scores[1] # 0
                      THEN RoundHalfEven(1000 * (scores[Len(scores)] - scores[1]), scores[1])
                      ELSE 0),
              latest_score |-> scores[Len(scores)],
              first_score |-> scores[1]]

\* trends[model_id] of the sorted runs of one model
model_trend(model_runs, window_size) ==
    LET with_score == scored_runs(model_runs)
        scores == [i \in 1..Len(with_score) |-> Val(with_score[i].overall_score)]
        dates == [i \in 1..Len(with_score) |-> with_score[i].completed_at]
    IN  IF Len(scores) < 2
        THEN [direction |-> "insufficient_data",
              data_points |-> Len(scores),
              scores |-> scores,
              dates |-> dates,
              moving_average |-> [i \in 1..Len(scores) |-> 100 * scores[i]],
              change |-> None,
              change_percent |-> None]
        ELSE [direction |-> trend_direction(scores),
              data_points |-> Len(scores),
              scores |-> scores,
              dates |-> dates,
              moving_average |-> moving_average(scores, window_size),
              change |-> Some(100 * (scores[Len(scores)] - scores[1])),
              change_percent |->
                 Some(IF scores[1] # 0
                      THEN RoundHalfEven(1000 * (scores[Len(scores)] - scores[1]), scores[1])
                      ELSE 0),
              latest_score |-> scores[Len(scores)],
              first_score |-> scores[1]]

\* analyze_trends ends in the exception of _moving_average, which is called
\* for every model with at least 2 scored runs
analyze_trends_raises(runs, window_size) ==
    \E i \in 1..Len(runs) :
        LET with_score == scored_runs(sorted_model_runs(runs, runs[i].model_id))
        IN  /\ Len(with_score) >= 2
            /\ moving_average_raises([k \in 1..Len(with_score) |->
                                         Val(with_score[k].overall_score)],
                                     window_size)

\* analyze_trends(runs, window_size), when it returns
analyze_trends(runs, window_size) ==
    [model_id \in {runs[i].model_id : i \in 1..Len(runs)} |->
        model_trend(sorted_model_runs(runs, model_id), window_size)]

\* faulty variant of is_anomalous: the population standard deviation
is_anomalous_population(score, scores, std_threshold) ==
    LET n == Len(scores)
        total == SumSeq(scores)
        var_num == n * SumSquares(scores) - total * total
        distance == n * score - total
    IN  4 * distance * distance * n > std_threshold * std_threshold * n * var_num

\* deviation > std_threshold, std_threshold in halves: with mean = total / n
\* and variance = var_num / (n * (n - 1)), the squares are compared
is_anomalous(score, scores, std_threshold) ==
    LET n == Len(scores)
        total == SumSeq(scores)
        var_num == n * SumSquares(scores) - total * total
        distance == n * score - total
    IN  4 * distance * distance * (n - 1) > std_threshold * std_threshold * n * var_num

\* the dict appended for the score at position i (index i - 1)
anomaly_entry(scores, i) ==
    LET n == Len(scores)
        total == SumSeq(scores)
        var_num == n * SumSquares(scores) - total * total
        distance == n * scores[i] - total
    IN  [index |-> i - 1,
         score |-> scores[i],
         expected |-> RoundHalfEven(100 * total, n),
         deviation_std |-> RoundedSqrt(distance * distance * (n - 1), n * var_num),
         direction |-> IF n * scores[i] > total THEN "above" ELSE "below"]

\* detect_anomalies(scores, std_threshold), std_threshold in halves
detect_anomalies(scores, std_threshold) ==
    LET n == Len(scores)
        total == SumSeq(scores)
        var_num == n * SumSquares(scores) - total * total
        flagged == {i \in 1..n : is_anomalous(scores[i], scores, std_threshold)}
    IN  IF n < 4 THEN <<>>
        ELSE IF var_num = 0 THEN <<>>
        ELSE [k \in 1..Cardinality(flagged) |->
                anomaly_entry(scores,
                              CHOOSE i \in flagged : Cardinality({j \in flagged : j <= i}) = k)]

----------------------------------------------------------------------------
(* Specification SpecClassify: one call of _classify_severity *)

ClassifyThresholds == {0, 50, DETECT_THRESHOLD, ScoreMax}

ClsIdle == cls_args = None /\ cls_severity = None
RegIdle == current_results = <<>> /\ baseline_results = <<>> /\ regression = None
ScorerIdle ==
    /\ task_results = <<>> /\ tier_arg = "" /\ tier_scores_arg = <<>>
    /\ threshold_arg = 0 /\ scored = None
CmpIdle == model_results = <<>> /\ comparison = None
RecIdle ==
    /\ rec_model = None /\ rec_run = None /\ rec_grade_rating = None
    /\ recommendation = None
TrendIdle == runs_arg = <<>> /\ window_size_arg = 0 /\ trends = None
MaIdle == ma_values = <<>> /\ ma_window = 0 /\ ma_result = None
AnomIdle == anomaly_scores = <<>> /\ std_threshold_arg = 0 /\ anomalies = None
AnalyzerIdle == CmpIdle /\ RecIdle /\ TrendIdle /\ MaIdle /\ AnomIdle
StatsIdle ==
    /\ stat_results = <<>> /\ category_key_arg = "" /\ aggregated = None
    /\ by_category = None
    /\ pct_scores = <<>> /\ pct_p = 0 /\ pct_result = None
SessionIdle == session_given = None /\ session_log = <<>> /\ set_order = None
RunIdle ==
    /\ eval_request = None /\ plugin_outcomes = <<>> /\ eval_pc = "idle"
    /\ eval_task_index = 0 /\ all_task_results = <<>> /\ eval_outcome = None
    /\ eval_error = "" /\ stored_results = <<>> /\ run_record = None
CancelIdle == cancel_pc = "idle" /\ cancel_target = "" /\ cancel_seen = None
OrchestratorIdle == RunIdle /\ CancelIdle
DownloadIdle ==
    /\ dl_source = ""
    /\ dl_status = ""
    /\ dl_active = None
    /\ dl_event_set = <<>>
    /\ dl_start_pc = <<>>
    /\ dl_start_outcome = <<>>
    /\ dl_task_pc = <<>>
    /\ dl_task_result = <<>>
PlatformIdle == SessionIdle /\ OrchestratorIdle /\ DownloadIdle

InitClassify ==
    /\ cls_args \in [current : 0..ScoreMax, baseline : 0..ScoreMax,
                     threshold : ClassifyThresholds]
    /\ cls_severity = None
    /\ RegIdle
    /\ ScorerIdle
    /\ AnalyzerIdle
    /\ StatsIdle /\ PlatformIdle

Classify ==
    /\ IsNone(cls_severity)
    /\ cls_severity' = Some(classify_severity(cls_args.current, cls_args.baseline,
                                              cls_args.threshold))
    /\ UNCHANGED <<cls_args, regVars, scorerVars, analyzerVars,
                   statsVars, platformVars>>

NextClassify == Classify

SpecClassify == InitClassify /\ [][NextClassify]_vars

----------------------------------------------------------------------------
(* Specification SpecDetect: GET /baselines/{id}/check on two stored runs *)

\* a task result row as detect_regressions reads it
TaskResult(task_name, benchmark_id, score) ==
    [task_name |-> task_name, benchmark_id |-> benchmark_id, score |-> score,
     education_tier |-> ""]

CurrentPool ==
    {TaskResult("a", "", Some(100)), TaskResult("a", "", Some(95)),
     TaskResult("a", "", Some(85)), TaskResult("b", "", Some(84)),
     TaskResult("b", "", Some(57)), TaskResult("", "a", Some(69)),
     TaskResult("a", "", None), TaskResult("", "", Some(50))}

BaselinePool ==
    {TaskResult("a", "", Some(100)), TaskResult("b", "", Some(100)),
     TaskResult("b", "", Some(60)), TaskResult("b", "", Some(0)),
     TaskResult("", "a", None),
     TaskResult("", "", Some(100))}

InitDetect ==
    /\ current_results \in SeqsUpTo(CurrentPool, MaxCurrent)
    /\ baseline_results \in SeqsUpTo(BaselinePool, MaxBaseline)
    /\ regression = None
    /\ ClsIdle
    /\ ScorerIdle
    /\ AnalyzerIdle
    /\ StatsIdle /\ PlatformIdle

\* regression = detect_regressions(current_results, baseline_results)
\* regression["exit_code"] = ci_exit_code(regression)
check_regression(current, baseline) ==
    LET report == detect_regressions(current, baseline, DETECT_THRESHOLD)
    IN  [has_regression |-> report.has_regression,
         overall_severity |-> report.overall_severity,
         regression_count |-> report.regression_count,
         total_tasks_compared |-> report.total_tasks_compared,
         average_delta |-> report.average_delta,
         tasks |-> report.tasks,
         exit_code |-> ci_exit_code(report)]

CheckRegression ==
    /\ IsNone(regression)
    /\ regression' = Some(check_regression(current_results, baseline_results))
    /\ UNCHANGED <<current_results, baseline_results, clsVars, scorerVars, analyzerVars,
                   statsVars, platformVars>>

NextDetect == CheckRegression

SpecDetect == InitDetect /\ [][NextDetect]_vars

----------------------------------------------------------------------------
(* Properties of _classify_severity (SpecClassify) *)

ClsDone == ~IsNone(cls_severity)
ClsCrossed == cls_args.baseline >= cls_args.threshold /\ cls_args.current < cls_args.threshold
\* the decline baseline - current, and 5% resp. 15% of the baseline, all times 20
ClsDecline20 == 20 * (cls_args.baseline - cls_args.current)
ClsFivePct20 == cls_args.baseline
ClsFifteenPct20 == 3 * cls_args.baseline

----------------------------------------------------------------------------
(* Properties of detect_regressions and ci_exit_code (SpecDetect) *)

Checked == ~IsNone(regression)
Report == Val(regression)
ReportSeverities == {Report.tasks[i].severity : i \in 1..Len(Report.tasks)}
ReportRegressed == {i \in 1..Len(Report.tasks) : Report.tasks[i].severity # SEV_NONE}

\* C2: the exit code is 2 iff the overall severity is CRITICAL or SEVERE, 1 iff
\* it is MODERATE or MINOR, and 0 iff it is NONE; no other code is returned.
C2_ExitCodeBands ==
    Checked =>
        /\ Report.exit_code \in {0, 1, 2}
        /\ Report.exit_code = 2 <=> Report.overall_severity \in {SEV_CRITICAL, SEV_SEVERE}
        /\ Report.exit_code = 1 <=> Report.overall_severity \in {SEV_MODERATE, SEV_MINOR}
        /\ Report.exit_code = 0 <=> Report.overall_severity = SEV_NONE

\* a report of overall severity SEVERE got exit code 2
C2_Witness ==
    Checked /\ Report.overall_severity = SEV_SEVERE /\ Report.exit_code = 2

\* C4: the overall severity is CRITICAL if any matched task is CRITICAL; else
\* SEVERE if any is SEVERE; else MODERATE if strictly more than half of the
\* matched tasks regressed; else MINOR if any regressed; else NONE.  Exactly
\* half regressed gives MINOR, no matched task gives NONE.
C4_OverallSeverity ==
    Checked =>
        LET n == Len(Report.tasks)
            k == Cardinality(ReportRegressed)
            worst_two == ReportSeverities \cap {SEV_CRITICAL, SEV_SEVERE}
            o == Report.overall_severity
        IN  /\ SEV_CRITICAL \in ReportSeverities => o = SEV_CRITICAL
            /\ worst_two = {SEV_SEVERE} => o = SEV_SEVERE
            /\ worst_two = {} /\ k + k > n => o = SEV_MODERATE
            /\ worst_two = {} /\ k + k <= n /\ k >= 1 => o = SEV_MINOR
            /\ worst_two = {} /\ k + k = n /\ n > 0 => o = SEV_MINOR
            /\ k = 0 => o = SEV_NONE
            /\ n = 0 => o = SEV_NONE

\* exactly half of the matched tasks regressed, none of them SEVERE or CRITICAL
C4_Witness ==
    /\ Checked
    /\ Len(Report.tasks) = 2
    /\ Cardinality(ReportRegressed) = 1
    /\ ReportSeverities \cap {SEV_CRITICAL, SEV_SEVERE} = {}
    /\ Report.overall_severity = SEV_MINOR

\* the (current score, baseline score) pairs of the matched tasks: a current
\* result with a key and a score, against the indexed baseline result of that key
MatchedPairs ==
    LET by_task == baseline_by_task(baseline_results)
    IN  {<<i, Val(current_results[i].score), Val(by_task[ResultKey(current_results[i])].score)>> :
            i \in {j \in 1..Len(current_results) : IsCompared(current_results[j], by_task)}}

\* C5: the exit code of detect followed by ci_exit_code is 0 exactly when no
\* matched task has a current score below its baseline score, 2 exactly when
\* some matched task fell from at or above the threshold to below it or
\* declined by more than 15% of its baseline, and 1 in every other case.
C5_ExitCodeFromScores ==
    Checked =>
        LET declined == {p \in MatchedPairs : p[2] < p[3]}
            failing == {p \in MatchedPairs :
                           \/ p[3] >= DETECT_THRESHOLD /\ p[2] < DETECT_THRESHOLD
                           \/ 20 * (p[3] - p[2]) > 3 * p[3]}
        IN  /\ Report.exit_code = 0 <=> declined = {}
            /\ Report.exit_code = 2 <=> failing # {}
            /\ Report.exit_code = 1 <=> declined # {} /\ failing = {}

\* a decline of exactly 15% above the threshold alone: exit code 1
C5_Witness ==
    /\ Checked
    /\ \E p \in MatchedPairs : p[2] < p[3] /\ 20 * (p[3] - p[2]) = 3 * p[3]
    /\ Report.exit_code = 1

\* C6 as stated: no task of the report has a severity worse than overall_severity
C6_NoTaskWorseThanOverall ==
    Checked =>
        \A i \in 1..Len(Report.tasks) :
            severity_order(Report.tasks[i].severity) >= severity_order(Report.overall_severity)

\* C6 amended: overall_severity equals the worst task severity when that is
\* CRITICAL or SEVERE; otherwise it is MODERATE, MINOR or NONE by the share of
\* regressed tasks, and the only task severity that can be worse than
\* overall_severity is MODERATE, under an overall MINOR, when at most half of
\* the matched tasks regressed.
C6_WorstOnlyForSevere ==
    Checked =>
        LET o == Report.overall_severity
        IN  /\ SEV_CRITICAL \in ReportSeverities => o = SEV_CRITICAL
            /\ SEV_SEVERE \in ReportSeverities /\ SEV_CRITICAL \notin ReportSeverities
                 => o = SEV_SEVERE
            /\ o \in {SEV_CRITICAL, SEV_SEVERE} => o \in ReportSeverities
            /\ \A i \in 1..Len(Report.tasks) :
                  severity_order(Report.tasks[i].severity) < severity_order(o)
                    => /\ Report.tasks[i].severity = SEV_MODERATE
                       /\ o = SEV_MINOR
                       /\ 2 * Cardinality(ReportRegressed) <= Len(Report.tasks)

\* a SEVERE task among milder ones decided the overall severity
C6_Witness ==
    /\ Checked
    /\ Report.overall_severity = SEV_SEVERE
    /\ SEV_MINOR \in ReportSeverities
    /\ SEV_NONE \in ReportSeverities

HasScoredBaseline(key) ==
    \E j \in 1..Len(baseline_results) :
        ResultKey(baseline_results[j]) = key /\ ~IsNone(baseline_results[j].score)

KeysOf(results) == {ResultKey(results[i]) : i \in 1..Len(results)} \ {""}

\* C7 as stated: total_tasks_compared counts the current results with a key and
\* a score for which the baseline set holds a scored result of the same key,
\* and appending to either set a result whose key does not occur in the other
\* set, or whose score is null, leaves the report unchanged.
C7_UnmatchedAndNullIgnored ==
    Checked =>
        /\ Report.total_tasks_compared =
              Cardinality({i \in 1..Len(current_results) :
                              /\ ~IsNone(current_results[i].score)
                              /\ ResultKey(current_results[i]) # ""
                              /\ HasScoredBaseline(ResultKey(current_results[i]))})
        /\ \A r \in CurrentPool :
              ResultKey(r) \notin KeysOf(baseline_results) \/ IsNone(r.score)
                => check_regression(Append(current_results, r), baseline_results) = Report
        /\ \A r \in BaselinePool :
              ResultKey(r) \notin KeysOf(current_results) \/ IsNone(r.score)
                => check_regression(current_results, Append(baseline_results, r)) = Report

SelectSeverity(tasks, s) == SelectSeq(tasks, LAMBDA t : t.severity = s)

\* C8: the tasks list is ordered worst-first under the rank CRITICAL < SEVERE <
\* MODERATE < MINOR < NONE, and entries of equal severity keep the order in
\* which their tasks appear in the current result set.
C8_WorstFirstStable ==
    Checked =>
        LET in_order == compare_loop(current_results, baseline_by_task(baseline_results),
                                     DETECT_THRESHOLD)
        IN  /\ \A i, j \in 1..Len(Report.tasks) :
                  i < j => severity_order(Report.tasks[i].severity)
                             <= severity_order(Report.tasks[j].severity)
            /\ \A s \in RegressionSeverity :
                  SelectSeverity(Report.tasks, s) = SelectSeverity(in_order, s)
            /\ Len(Report.tasks) = Len(in_order)

\* the sort moved a later, worse entry in front of two different entries of
\* one severity
C8_Witness ==
    /\ Checked
    /\ Len(Report.tasks) = 3
    /\ Report.tasks[2].severity = Report.tasks[3].severity
    /\ Report.tasks[2] # Report.tasks[3]
    /\ Report.tasks[1].severity # Report.tasks[2].severity
    /\ Report.tasks # compare_loop(current_results, baseline_by_task(baseline_results),
                                   DETECT_THRESHOLD)

----------------------------------------------------------------------------
(* Specification SpecTierScore: one call of calculate_tier_score *)

\* a task result dict as the scorer reads it
ScorerResult(task_name, name, tier, score, weight) ==
    [task_name |-> task_name, name |-> name, education_tier |-> tier,
     score |-> score, weight |-> weight]

TierScorePool ==
    {ScorerResult(Some("a"), None, t, s, w) :
        t \in {ELEMENTARY, HIGH_SCHOOL},
        s \in {None, Some(60), Some(80)},
        w \in {None, Some(0), Some(2)}}
    \cup {ScorerResult(None, Some("n"), ELEMENTARY, Some(80), None),
          ScorerResult(None, None, ELEMENTARY, Some(60), None)}

InitTierScore ==
    /\ task_results \in SeqsUpTo(TierScorePool, MaxTierResults)
    /\ tier_arg \in {ELEMENTARY, HIGH_SCHOOL}
    /\ tier_scores_arg = <<>>
    /\ threshold_arg = 0
    /\ scored = None
    /\ ClsIdle
    /\ RegIdle
    /\ AnalyzerIdle
    /\ StatsIdle /\ PlatformIdle

CalculateTierScore ==
    /\ IsNone(scored)
    /\ scored' = Some(calculate_tier_score(task_results, tier_arg))
    /\ UNCHANGED <<task_results, tier_arg, tier_scores_arg, threshold_arg, clsVars, regVars,
                   analyzerVars,
                   statsVars, platformVars>>

NextTierScore == CalculateTierScore

SpecTierScore == InitTierScore /\ [][NextTierScore]_vars

----------------------------------------------------------------------------
(* Specification SpecMaxTier: one call of get_max_passing_tier *)

ScoreSamples == {0, 49, 50, 51, DEFAULT_THRESHOLD - 1, DEFAULT_THRESHOLD,
                 DEFAULT_THRESHOLD + 1, ScoreMax}

Tiers == {TIER_ORDER[i] : i \in 1..Len(TIER_ORDER)}

InitMaxTier ==
    /\ tier_scores_arg \in UNION {[present -> {Quotient(s, 1) : s \in ScoreSamples}] :
                                     present \in SUBSET Tiers}
    /\ threshold_arg \in {50, DEFAULT_THRESHOLD}
    /\ task_results = <<>>
    /\ tier_arg = ""
    /\ scored = None
    /\ ClsIdle
    /\ RegIdle
    /\ AnalyzerIdle
    /\ StatsIdle /\ PlatformIdle

GetMaxPassingTier ==
    /\ IsNone(scored)
    /\ scored' = Some(get_max_passing_tier(tier_scores_arg, threshold_arg))
    /\ UNCHANGED <<task_results, tier_arg, tier_scores_arg, threshold_arg, clsVars, regVars,
                   analyzerVars,
                   statsVars, platformVars>>

NextMaxTier == GetMaxPassingTier

SpecMaxTier == InitMaxTier /\ [][NextMaxTier]_vars

----------------------------------------------------------------------------
(* Specification SpecRating: one call of compute_grade_level_rating *)

RatingPool ==
    {ScorerResult(Some("a"), None, t, Some(s), None) : t \in Tiers, s \in {60, 70}}
    \cup {ScorerResult(Some("b"), None, ELEMENTARY, None, None),
          ScorerResult(Some("c"), None, HIGH_SCHOOL, Some(70), Some(0)),
          ScorerResult(Some("d"), None, "", Some(70), None),
          ScorerResult(Some("e"), None, "preschool", Some(70), None)}

InitRating ==
    /\ task_results \in SeqsUpTo(RatingPool, MaxRatingResults)
    /\ threshold_arg \in {65, DEFAULT_THRESHOLD}
    /\ tier_arg = ""
    /\ tier_scores_arg = <<>>
    /\ scored = None
    /\ ClsIdle
    /\ RegIdle
    /\ AnalyzerIdle
    /\ StatsIdle /\ PlatformIdle

ComputeRating ==
    /\ IsNone(scored)
    /\ scored' = Some(compute_grade_level_rating(task_results, threshold_arg))
    /\ UNCHANGED <<task_results, tier_arg, tier_scores_arg, threshold_arg, clsVars, regVars,
                   analyzerVars,
                   statsVars, platformVars>>

NextRating == ComputeRating

SpecRating == InitRating /\ [][NextRating]_vars

----------------------------------------------------------------------------
(* Properties of get_max_passing_tier (SpecMaxTier) *)

\* the tier is present in the tier_scores argument and not below the threshold
TierPasses(tier) ==
    /\ tier \in DOMAIN tier_scores_arg
    /\ ~(tier_scores_arg[tier].num < threshold_arg * tier_scores_arg[tier].den)

\* C1: max_passing_tier is absent or a tier T of the fixed order such that every
\* tier from elementary up to and including T is present with score >=
\* threshold and the tier after T, if any, is absent or below threshold; it is
\* absent exactly when elementary is absent or below threshold.
C1_SequentialPass ==
    ~IsNone(scored) =>
        LET max_tier == Val(scored)
        IN  /\ IsNone(max_tier) <=> ~TierPasses(ELEMENTARY)
            /\ ~IsNone(max_tier) =>
                  \E k \in 1..Len(TIER_ORDER) :
                      /\ TIER_ORDER[k] = Val(max_tier)
                      /\ \A j \in 1..k : TierPasses(TIER_ORDER[j])
                      /\ k < Len(TIER_ORDER) => ~TierPasses(TIER_ORDER[k + 1])

\* elementary passes with a score equal to the threshold, highschool is absent
\* and undergrad and grad pass on their own: the result stays elementary
C1_Witness ==
    /\ ~IsNone(scored)
    /\ Val(scored) = Some(ELEMENTARY)
    /\ tier_scores_arg[ELEMENTARY] = Quotient(threshold_arg, 1)
    /\ HIGH_SCHOOL \notin DOMAIN tier_scores_arg
    /\ TierPasses(UNDERGRADUATE)
    /\ TierPasses(GRADUATE)

----------------------------------------------------------------------------
(* Properties of calculate_tier_score (SpecTierScore) *)

RECURSIVE SumFn(_)
SumFn(f) ==
    IF DOMAIN f = {} THEN 0
    ELSE LET x == CHOOSE x \in DOMAIN f : TRUE
         IN  f[x] + SumFn([y \in DOMAIN f \ {x} |-> f[y]])

\* the indices of the results of the tier that carry a score
Contributing(results, tier) ==
    {i \in 1..Len(results) : results[i].education_tier = tier /\ results[i].score # None}

GivenWeight(r) == IF r.weight = None THEN 1 ELSE r.weight[1]

WeightTotal(results, tier) ==
    SumFn([i \in Contributing(results, tier) |-> GivenWeight(results[i])])

ScoreTotal(results, tier) ==
    SumFn([i \in Contributing(results, tier) |-> results[i].score[1] * GivenWeight(results[i])])

\* the k-th contributing index in input order
KthOf(idx, k) == CHOOSE i \in idx : Cardinality({j \in idx : j <= i}) = k

\* score is the weighted mean and breakdown lists the contributing results in
\* input order
IsWeightedMeanWithBreakdown(out, results, tier) ==
    LET idx == Contributing(results, tier)
    IN  /\ out.score.num * WeightTotal(results, tier)
              = ScoreTotal(results, tier) * out.score.den
        /\ out.score.den > 0
        /\ Len(out.breakdown) = Cardinality(idx)
        /\ \A k \in 1..Len(out.breakdown) :
              LET r == results[KthOf(idx, k)]
              IN  /\ out.breakdown[k].score = r.score[1]
                  /\ out.breakdown[k].weight = GivenWeight(r)
                  /\ out.breakdown[k].task_name \in {"Unknown"} \cup
                        {n[1] : n \in {r.task_name, r.name} \ {None}}
                  /\ r.task_name # None => out.breakdown[k].task_name = r.task_name[1]

\* a result of another tier, or without a score, does not change what is returned
OthersIgnored(out, results, tier) ==
    \A r \in TierScorePool :
        r.education_tier # tier \/ r.score = None
          => calculate_tier_score(Append(results, r), tier) = out

\* C9 as stated: the weighted mean over the results of the tier with a score,
\* weight 1.0 where none is given, with one breakdown entry per contributing
\* result in input order; (0.0, []) when no result matches; other results
\* never change the score.
C9_WeightedMean ==
    ~IsNone(scored) =>
        LET out == Val(scored)
        IN  /\ Contributing(task_results, tier_arg) = {}
                 => out = [score |-> Zero, breakdown |-> <<>>]
            /\ Contributing(task_results, tier_arg) # {}
                 => IsWeightedMeanWithBreakdown(out, task_results, tier_arg)
            /\ OthersIgnored(out, task_results, tier_arg)

\* C9 amended: as stated, except that (0.0, []) is returned also when the
\* weights of the contributing results sum to zero.
C9_WeightedMeanUnlessZeroWeight ==
    ~IsNone(scored) =>
        LET out == Val(scored)
            empty == \/ Contributing(task_results, tier_arg) = {}
                     \/ WeightTotal(task_results, tier_arg) = 0
        IN  /\ empty => out = [score |-> Zero, breakdown |-> <<>>]
            /\ ~empty => IsWeightedMeanWithBreakdown(out, task_results, tier_arg)
            /\ OthersIgnored(out, task_results, tier_arg)

\* 60 with the default weight and 80 with weight 2, beside a result of the
\* other tier: 220/3
C9_Witness ==
    /\ ~IsNone(scored)
    /\ Val(scored).score = [num |-> 220, den |-> 3]
    /\ Len(Val(scored).breakdown) = 2
    /\ Len(task_results) = 3

----------------------------------------------------------------------------
(* Properties of compute_grade_level_rating (SpecRating) *)

Rating == Val(scored)

TiersWithScoredResult ==
    {t \in Tiers : Contributing(task_results, t) # {}}

\* C10 as stated: tier_scores and tier_details have the same key set, the tiers
\* of the fixed order for which the results contain a result with a score.
C10_KeysAreScoredTiers ==
    ~IsNone(scored) =>
        /\ DOMAIN Rating.tier_scores = DOMAIN Rating.tier_details
        /\ DOMAIN Rating.tier_scores = TiersWithScoredResult

\* C10 amended: the key set is the set of tiers for which the results contain
\* a result with a score and the weights of the tier's scored results do not
\* sum to zero.
C10_KeysAreWeightedScoredTiers ==
    ~IsNone(scored) =>
        /\ DOMAIN Rating.tier_scores = DOMAIN Rating.tier_details
        /\ DOMAIN Rating.tier_scores =
              {t \in TiersWithScoredResult : WeightTotal(task_results, t) # 0}
        /\ \A t \in DOMAIN Rating.tier_details : Rating.tier_details[t] # <<>>

\* elementary has only a result without a score and is left out, which stops
\* the sequential pass although highschool passes; a result of an unknown tier
\* is ignored
C10_Witness ==
    /\ ~IsNone(scored)
    /\ \E i \in 1..Len(task_results) : task_results[i].education_tier = ELEMENTARY
    /\ \E i \in 1..Len(task_results) : task_results[i].education_tier \notin Tiers
    /\ DOMAIN Rating.tier_scores = {HIGH_SCHOOL}
    /\ ~(Rating.tier_scores[HIGH_SCHOOL].num
           < Rating.threshold * Rating.tier_scores[HIGH_SCHOOL].den)
    /\ IsNone(Rating.max_passing_tier)

----------------------------------------------------------------------------
(* Specification SpecOverall: one call of calculate_overall_education_score *)

InitOverall ==
    /\ tier_scores_arg \in UNION {[present -> {Quotient(s, 1) : s \in ScoreSamples}] :
                                     present \in SUBSET Tiers}
    /\ threshold_arg = 0
    /\ task_results = <<>>
    /\ tier_arg = ""
    /\ scored = None
    /\ ClsIdle
    /\ RegIdle
    /\ AnalyzerIdle
    /\ StatsIdle /\ PlatformIdle

CalculateOverall ==
    /\ IsNone(scored)
    /\ scored' = Some(calculate_overall_education_score(tier_scores_arg))
    /\ UNCHANGED <<task_results, tier_arg, tier_scores_arg, threshold_arg, clsVars, regVars,
                   analyzerVars,
                   statsVars, platformVars>>

NextOverall == CalculateOverall

SpecOverall == InitOverall /\ [][NextOverall]_vars

----------------------------------------------------------------------------
(* Properties of calculate_overall_education_score (SpecOverall) *)

\* the weights 1.0, 1.0, 0.8, 0.6 in tenths
StatedTierWeight ==
    [t \in Tiers |-> CASE t = "elementary" -> 10
                       [] t = "highschool" -> 10
                       [] t = "undergrad" -> 8
                       [] t = "grad" -> 6]

----------------------------------------------------------------------------
(* Specification SpecCompare: one call of compare_model_results *)

\* a run record as compare_model_results reads it
RunRecord(id, overall_score) == [id |-> id, overall_score |-> overall_score]

ComparePool ==
    {ModelResult(ModelRecord("m1", "A", FALSE, Some(7)),
                 <<ResultRow("t1", ELEMENTARY, Some(80)), ResultRow("t2", HIGH_SCHOOL, Some(90))>>,
                 Some(RunRecord("r1", Some(85)))),
     ModelResult(ModelRecord("m2", "B", TRUE, None),
                 <<ResultRow("t1", GRADUATE, Some(60)), ResultRow("t2", UNDERGRADUATE, Some(71))>>,
                 None),
     ModelResult(ModelRecord("m3", "C", TRUE, None),
                 <<ResultRow("t3", "", None)>>,
                 None),
     ModelResult(ModelRecord("m4", "D", FALSE, None),
                 <<ResultRow("t1", "preschool", Some(50))>>,
                 Some(RunRecord("r4", Some(0)))),
     ModelResult(ModelRecord("m5", "E", FALSE, None),
                 <<ResultRow("t2", "", Some(30)), ResultRow("t1", "", Some(30))>>,
                 Some(RunRecord("r5", Some(30)))),
     ModelResult(ModelRecord("m6", "F", FALSE, None),
                 <<>>,
                 Some(RunRecord("r6", None))),
     ModelResult(ModelRecord("m7", "G", FALSE, None),
                 <<ResultRow("t1", "", Some(0))>>,
                 Some(RunRecord("r7", Some(0)))),
     ModelResult(ModelRecord("m8", "H", FALSE, None),
                 <<ResultRow("", "kindergarten", Some(85))>>,
                 None)}

InitCompare ==
    /\ model_results \in SeqsUpTo(ComparePool, MaxModels)
    /\ comparison = None
    /\ ClsIdle
    /\ RegIdle
    /\ ScorerIdle
    /\ RecIdle /\ TrendIdle /\ MaIdle /\ AnomIdle
    /\ StatsIdle /\ PlatformIdle

CompareModels ==
    /\ IsNone(comparison)
    /\ \E radar_dimensions \in get_radar_dimensions(model_results) :
          comparison' = Some(compare_model_results(model_results, radar_dimensions))
    /\ UNCHANGED <<model_results, clsVars, regVars, scorerVars,
                   recVars, trendVars, maVars, anomVars,
                   statsVars, platformVars>>

NextCompare == CompareModels

SpecCompare == InitCompare /\ [][NextCompare]_vars

----------------------------------------------------------------------------
(* Properties of compare_model_results (SpecCompare) *)

Compared == ~IsNone(comparison)
Comparison == Val(comparison)

\* the mean of the non-null scores of a result list, in hundredths
StatedMean(results) ==
    LET idx == {i \in 1..Len(results) : results[i].score # None}
    IN  IF idx = {} THEN None
        ELSE Some(RoundHalfEven(100 * SumFn([i \in idx |-> results[i].score[1]]),
                                Cardinality(idx)))

\* the input entry of a model id (entries of one id are equal)
InputOf(id) ==
    model_results[CHOOSE i \in 1..Len(model_results) : model_results[i].model.id = id]

\* the score an output entry is ranked by: the run's overall_score, or the
\* mean when there is no run score; an entry without any score ranks as 0
RankedScore(m) ==
    LET input == InputOf(m.model_id)
        run_score == IF input.run = None THEN None ELSE input.run[1].overall_score
    IN  IF run_score # None THEN 100 * run_score[1]
        ELSE IF StatedMean(input.results) # None THEN StatedMean(input.results)[1]
        ELSE 0

\* C12: the models list is in non-increasing order of each entry's
\* overall_score (the run's overall_score, or the mean of the non-null scores
\* when there is no run score), summary.best_model is the name of the first
\* entry, which has the highest score, and summary.model_count is the number
\* of input entries.
C12_SortedByOverallScore ==
    (Compared /\ model_results # <<>>) =>
        LET models == Comparison.models
        IN  /\ \A i \in 1..(Len(models) - 1) :
                  RankedScore(models[i]) >= RankedScore(models[i + 1])
            /\ Comparison.summary # None
            /\ Comparison.summary[1].best_model = models[1].model_name
            /\ \A i \in 1..Len(models) : RankedScore(models[1]) >= RankedScore(models[i])
            /\ Comparison.summary[1].model_count = Len(model_results)

\* C13: reference_model_id is the id of the first input entry flagged
\* is_reference, or None; an output entry carries delta_from_reference
\* exactly when a reference exists, the entry is not the reference model and
\* both means are defined, the value being the entry's mean minus the
\* reference's mean; the reference's own entry never carries a delta.
C13_DeltaFromReference ==
    Compared =>
        LET flagged == {i \in 1..Len(model_results) : model_results[i].model.is_reference}
            first == CHOOSE i \in flagged : \A j \in flagged : i <= j
            ref == IF flagged = {} THEN None ELSE <<model_results[first].model.id>>
        IN  /\ Comparison.reference_model_id = ref
            /\ \A k \in 1..Len(Comparison.models) :
                  LET m == Comparison.models[k]
                      mean == StatedMean(InputOf(m.model_id).results)
                      ref_mean == IF ref = None THEN None
                                  ELSE StatedMean(model_results[first].results)
                  IN  /\ m.delta_from_reference # None
                            <=> /\ ref # None
                                /\ m.model_id # ref[1]
                                /\ mean # None
                                /\ ref_mean # None
                      /\ m.delta_from_reference # None
                            => m.delta_from_reference[1] = mean[1] - ref_mean[1]

\* two entries are flagged, the first of them is the reference, and one
\* entry scores below it and another entry has no mean and so no delta
C13_Witness ==
    /\ Compared
    /\ Cardinality({i \in 1..Len(model_results) : model_results[i].model.is_reference}) = 2
    /\ model_results[1].model.id # "m2"
    /\ Comparison.reference_model_id = Some("m2")
    /\ \E k \in 1..Len(Comparison.models) :
          /\ Comparison.models[k].delta_from_reference # None
          /\ Comparison.models[k].delta_from_reference[1] < 0
    /\ \E k \in 1..Len(Comparison.models) :
          /\ Comparison.models[k].model_id = "m3"
          /\ Comparison.models[k].delta_from_reference = None

\* the tiers and the task names carried by the results of the input
InputTiers ==
    {t \in UNION {{model_results[i].results[j].education_tier :
                      j \in 1..Len(model_results[i].results)} :
                   i \in 1..Len(model_results)} : t # ""}
InputTaskNames ==
    {t \in UNION {{model_results[i].results[j].task_name :
                      j \in 1..Len(model_results[i].results)} :
                   i \in 1..Len(model_results)} : t # ""}

\* the elements of a set of strings in alphabetical order
RECURSIVE AlphabeticalList(_)
AlphabeticalList(S) ==
    IF S = {} THEN <<>>
    ELSE LET least == CHOOSE x \in S : \A y \in S : x = y \/ StrLess(x, y)
         IN  <<least>> \o AlphabeticalList(S \ {least})

\* C14: the radar dimensions are, when any result carries an education_tier,
\* the tiers present in the fixed order elementary, highschool, undergrad,
\* grad, followed by the other tiers in alphabetical order, and otherwise the
\* distinct task names in alphabetical order; they depend on the input only
\* through these sets.
C14_RadarDimensionOrder ==
    Compared =>
        Comparison.radar_dimensions =
            IF InputTiers # {}
            THEN SelectSeq(<<"elementary", "highschool", "undergrad", "grad">>,
                           LAMBDA t : t \in InputTiers)
                   \o AlphabeticalList(InputTiers
                                         \ {"elementary", "highschool", "undergrad", "grad"})
            ELSE AlphabeticalList(InputTaskNames)

----------------------------------------------------------------------------
(* Specification SpecRecommend: one call of recommend_deployment, as made  *)
(* by GET /compare/recommendations for one model                           *)

RecommendModels ==
    [model_type : {"llm", "stt", "tts"},
     parameter_count_b : {None, Some(0), Some(15), Some(16), Some(30), Some(31),
                          Some(700), Some(701)},
     model_size_gb : {None, Some(0), Some(40), Some(41), Some(1500), Some(1501)},
     quantization : {"", "q4"}]

\* the latest completed run, if any; the orchestrator gives it a score
RecommendRuns ==
    {None} \cup {Some([overall_score |-> sc]) : sc \in {0, 59, 60, 69, 70, 74, 75, ScoreMax}}

RecommendRatings ==
    {None} \cup {Some([max_passing_tier |-> t]) : t \in {"", ELEMENTARY, HIGH_SCHOOL}}

InitRecommend ==
    /\ rec_model \in RecommendModels
    /\ rec_run \in RecommendRuns
    /\ rec_grade_rating \in RecommendRatings
    /\ recommendation = None
    /\ ClsIdle
    /\ RegIdle
    /\ ScorerIdle
    /\ CmpIdle /\ TrendIdle /\ MaIdle /\ AnomIdle
    /\ StatsIdle /\ PlatformIdle

RecommendDeployment ==
    /\ IsNone(recommendation)
    /\ recommendation' = Some(recommend_deployment(rec_model, rec_run, rec_grade_rating))
    /\ UNCHANGED <<rec_model, rec_run, rec_grade_rating, clsVars, regVars, scorerVars,
                   cmpVars, trendVars, maVars, anomVars,
                   statsVars, platformVars>>

NextRecommend == RecommendDeployment

SpecRecommend == InitRecommend /\ [][NextRecommend]_vars

----------------------------------------------------------------------------
(* Properties of recommend_deployment (SpecRecommend) *)

Recommended == ~IsNone(recommendation)
Recommendation == Val(recommendation)

\* the suitability reported for a target
SuitabilityOf(target) ==
    LET k == CHOOSE k \in 1..Len(Recommendation.targets) :
                 Recommendation.targets[k].target = target
    IN  Recommendation.targets[k].suitability

\* the model value is present, the target has a limit, and the value is over it
Exceeds(value, limit) == value # None /\ limit # None /\ value[1] > limit[1]

CatalogueIndex(target) ==
    CHOOSE i \in 1..3 : <<"on-device", "server", "cloud-api">>[i] = target

\* C16: recommended_target is a target of maximal suitability, the first in
\* the catalogue order on-device, server, cloud-api among those that tie for
\* the maximum, and the targets list is in non-increasing order of
\* suitability.
C16_RecommendedIsFirstBest ==
    Recommended =>
        LET targets == Recommendation.targets
            best == Recommendation.recommended_target
        IN  /\ \A k \in 1..(Len(targets) - 1) :
                  targets[k].suitability >= targets[k + 1].suitability
            /\ best \in {"on-device", "server", "cloud-api"}
            /\ \A target \in {"on-device", "server", "cloud-api"} :
                  /\ SuitabilityOf(target) <= SuitabilityOf(best)
                  /\ SuitabilityOf(target) = SuitabilityOf(best)
                        => CatalogueIndex(best) <= CatalogueIndex(target)

\* server and cloud-api tie for the maximum above on-device: server, which
\* comes first in the catalogue, is recommended
C16_Witness ==
    /\ Recommended
    /\ SuitabilityOf("server") = SuitabilityOf("cloud-api")
    /\ SuitabilityOf("on-device") < SuitabilityOf("server")
    /\ Recommendation.recommended_target = "server"

----------------------------------------------------------------------------
(* Specification SpecTrends: one call of analyze_trends *)

\* window_size: int = 5
DEFAULT_WINDOW_SIZE == 5

TrendPool ==
    {RunSummary("m1", d, Some(sc)) : d \in {None, Some(1), Some(2)}, sc \in {50, 56, 57}}
    \cup {RunSummary("m1", Some(1), None), RunSummary("m2", Some(1), Some(50))}

InitTrends ==
    /\ runs_arg \in SeqsUpTo(TrendPool, MaxRuns)
    /\ window_size_arg \in {2, DEFAULT_WINDOW_SIZE}
    /\ trends = None
    /\ ClsIdle
    /\ RegIdle
    /\ ScorerIdle
    /\ CmpIdle /\ RecIdle /\ MaIdle /\ AnomIdle
    /\ StatsIdle /\ PlatformIdle

AnalyzeTrends ==
    /\ IsNone(trends)
    /\ trends' = IF analyze_trends_raises(runs_arg, window_size_arg)
                 THEN Raised(ZeroDivisionError)
                 ELSE Some(analyze_trends(runs_arg, window_size_arg))
    /\ UNCHANGED <<runs_arg, window_size_arg, clsVars, regVars, scorerVars,
                   cmpVars, recVars, maVars, anomVars,
                   statsVars, platformVars>>

NextTrends == AnalyzeTrends

SpecTrends == InitTrends /\ [][NextTrends]_vars

----------------------------------------------------------------------------
(* Properties of analyze_trends (SpecTrends) *)

Analyzed == ~IsNone(trends)
Trends == Val(trends)

\* the positions in the input of the scored runs of a model
ScoredPositions(runs, model_id) ==
    {i \in 1..Len(runs) : runs[i].model_id = model_id /\ runs[i].overall_score # None}

\* the timestamp a run is ordered by, a run without one coming first
StampOf(r) == IF r.completed_at = None THEN 0 ELSE r.completed_at[1]

\* the scores of the scored runs of a model in timestamp order, runs of the
\* same timestamp (or without one) in the order of the input list
RECURSIVE ScoresInOrder(_, _)
ScoresInOrder(runs, positions) ==
    IF positions = {} THEN <<>>
    ELSE LET first == CHOOSE i \in positions : \A j \in positions :
                          \/ StampOf(runs[i]) < StampOf(runs[j])
                          \/ StampOf(runs[i]) = StampOf(runs[j]) /\ i <= j
         IN  <<runs[first].overall_score[1]>> \o ScoresInOrder(runs, positions \ {first})

\* the direction stated for a series of at least 2 scores; the two means are
\* over the same number k of scores, so they are compared as sums
StatedDirection(scores) ==
    LET n == Len(scores)
        k == IF n < 3 THEN n ELSE 3
        last == SumFn([i \in (n - k + 1)..n |-> scores[i]])
        first == SumFn([i \in 1..k |-> scores[i]])
    IN  IF last - first > 2 * k THEN "improving"
        ELSE IF first - last > 2 * k THEN "declining"
        ELSE "stable"

\* the input list with the runs at positions i and i + 1 exchanged
Exchanged(runs, i) ==
    [j \in 1..Len(runs) |-> IF j = i THEN runs[i + 1] ELSE IF j = i + 1 THEN runs[i] ELSE runs[j]]

\* the direction follows the stated rule on the scores in timestamp order
DirectionRule ==
    \A model_id \in DOMAIN Trends :
        LET scores == ScoresInOrder(runs_arg, ScoredPositions(runs_arg, model_id))
        IN  Len(scores) >= 2 => Trends[model_id].direction = StatedDirection(scores)

TiedNeighbours(runs, i) ==
    /\ runs[i].model_id = runs[i + 1].model_id
    /\ runs[i].overall_score # None
    /\ runs[i + 1].overall_score # None
    /\ StampOf(runs[i]) = StampOf(runs[i + 1])

C18_InsufficientData ==
    Analyzed =>
        \A model_id \in DOMAIN Trends :
            LET trend == Trends[model_id]
                scored_count == Cardinality(ScoredPositions(runs_arg, model_id))
            IN  /\ trend.direction = "insufficient_data" <=> scored_count < 2
                /\ trend.direction = "insufficient_data"
                      => trend.change = None /\ trend.change_percent = None
                /\ trend.data_points = scored_count
                /\ Len(trend.scores) = scored_count
                /\ Len(trend.dates) = scored_count
                /\ Len(trend.moving_average) = scored_count
                /\ trend.scores = ScoresInOrder(runs_arg, ScoredPositions(runs_arg, model_id))

\* model m1 has one scored run and one run without a score, model m2 a
\* single scored run: both are reported with one data point
C18_Witness ==
    /\ Analyzed
    /\ DOMAIN Trends = {"m1", "m2"}
    /\ \E i \in 1..Len(runs_arg) :
          runs_arg[i].model_id = "m1" /\ runs_arg[i].overall_score = None
    /\ Trends["m1"].direction = "insufficient_data"
    /\ Trends["m1"].data_points = 1
    /\ Trends["m2"].data_points = 1

----------------------------------------------------------------------------
(* Specification SpecMovingAverage: one call of _moving_average *)

InitMovingAverage ==
    /\ ma_values \in SeqsUpTo({0, 33, 50, ScoreMax}, MaxSeries)
    /\ ma_window \in 1..MaxWindow
    /\ ma_result = None
    /\ ClsIdle
    /\ RegIdle
    /\ ScorerIdle
    /\ CmpIdle /\ RecIdle /\ TrendIdle /\ AnomIdle
    /\ StatsIdle /\ PlatformIdle

MovingAverage ==
    /\ IsNone(ma_result)
    /\ ma_result' = IF moving_average_raises(ma_values, ma_window)
                    THEN Raised(ZeroDivisionError)
                    ELSE Some(moving_average(ma_values, ma_window))
    /\ UNCHANGED <<ma_values, ma_window, clsVars, regVars, scorerVars,
                   cmpVars, recVars, trendVars, anomVars,
                   statsVars, platformVars>>

NextMovingAverage == MovingAverage

SpecMovingAverage == InitMovingAverage /\ [][NextMovingAverage]_vars

----------------------------------------------------------------------------
(* Properties of _moving_average (SpecMovingAverage) *)

\* avg, in hundredths, is the mean of values[from..to] rounded to 2 decimals:
\* it is within half a hundredth of the exact mean
IsRoundedMean(avg, values, from, to) ==
    LET count == to - from + 1
        diff == 100 * SumFn([j \in from..to |-> values[j]]) - avg * count
    IN  2 * diff <= count /\ 2 * (0 - diff) <= count

----------------------------------------------------------------------------
(* Specification SpecAnomalies: one call of detect_anomalies *)

InitAnomalies ==
    /\ anomaly_scores \in SeqsUpTo({0, 50, 51, ScoreMax}, MaxAnomalySeries)
    \* std_threshold 1.0, 1.5 and the default 2.0, in halves
    /\ std_threshold_arg \in {2, 3, 4}
    /\ anomalies = None
    /\ ClsIdle
    /\ RegIdle
    /\ ScorerIdle
    /\ CmpIdle /\ RecIdle /\ TrendIdle /\ MaIdle
    /\ StatsIdle /\ PlatformIdle

DetectAnomalies ==
    /\ IsNone(anomalies)
    /\ anomalies' = Some(detect_anomalies(anomaly_scores, std_threshold_arg))
    /\ UNCHANGED <<anomaly_scores, std_threshold_arg, clsVars, regVars, scorerVars,
                   cmpVars, recVars, trendVars, maVars,
                   statsVars, platformVars>>

NextAnomalies == DetectAnomalies

SpecAnomalies == InitAnomalies /\ [][NextAnomalies]_vars

----------------------------------------------------------------------------
(* Properties of detect_anomalies (SpecAnomalies) *)

\* n times the distance of the score at a position from the mean, signed
ScaledDistance(scores, position) ==
    Len(scores) * scores[position] - SumFn([j \in 1..Len(scores) |-> scores[j]])

\* |x - mean| > (threshold / 2) * sample standard deviation, squared and
\* multiplied out: the sample variance is the sum of the squared distances
\* over n - 1
FartherThan(scores, position, threshold_halves) ==
    4 * (Len(scores) - 1) * ScaledDistance(scores, position) * ScaledDistance(scores, position)
        > threshold_halves * threshold_halves
            * SumFn([j \in 1..Len(scores) |->
                        ScaledDistance(scores, j) * ScaledDistance(scores, j)])

\* C20: no anomaly is returned for fewer than 4 points or when all points
\* are equal; otherwise exactly the points farther from the mean than
\* std_threshold sample standard deviations (divisor n - 1) are flagged,
\* each with its index, in increasing index order, and with direction above
\* or below by its side of the mean.
C20_AnomaliesBeyondThreshold ==
    ~IsNone(anomalies) =>
        LET found == Val(anomalies)
            n == Len(anomaly_scores)
            all_equal == \A i, j \in 1..n : anomaly_scores[i] = anomaly_scores[j]
        IN  /\ (n < 4 \/ all_equal) => found = <<>>
            /\ ~(n < 4 \/ all_equal) =>
                  /\ {found[k].index : k \in 1..Len(found)}
                        = {i - 1 : i \in {j \in 1..n :
                                     FartherThan(anomaly_scores, j, std_threshold_arg)}}
                  /\ \A k \in 1..(Len(found) - 1) : found[k].index < found[k + 1].index
                  /\ \A k \in 1..Len(found) :
                        /\ found[k].score = anomaly_scores[found[k].index + 1]
                        /\ found[k].direction =
                              IF ScaledDistance(anomaly_scores, found[k].index + 1) > 0
                              THEN "above" ELSE "below"

\* six points at the default threshold of 2.0: one low point, not the first
\* of the series, is flagged and no other
C20_Witness ==
    /\ ~IsNone(anomalies)
    /\ std_threshold_arg = 4
    /\ Len(anomaly_scores) = 6
    /\ Len(Val(anomalies)) = 1
    /\ Val(anomalies)[1].direction = "below"
    /\ Val(anomalies)[1].index > 0

----------------------------------------------------------------------------
(* Specification SpecStatistics: one call of aggregate_scores and one of   *)
(* score_by_category on the same result list                               *)

\* longest result list given to the statistics
MaxStatResults == 3

\* rows with and without a score, with the tier None, and dicts that have no
\* education_tier key at all
StatPool ==
    {ResultRow("t1", tier, sc) : tier \in {"elementary", ""},
                                 sc \in {None, Some(0), Some(51), Some(ScoreMax)}}
    \cup {ResultRow("t2", "elementary", Some(50)),
          ResultRow("t1", "unknown", Some(51)),
          [task_name |-> "t1", score |-> Some(50)],
          [task_name |-> "t2", score |-> None]}

InitStatistics ==
    /\ stat_results \in SeqsUpTo(StatPool, MaxStatResults)
    /\ category_key_arg \in {"education_tier", "task_name"}
    /\ aggregated = None
    /\ by_category = None
    /\ pct_scores = <<>> /\ pct_p = 0 /\ pct_result = None
    /\ ClsIdle
    /\ RegIdle
    /\ ScorerIdle
    /\ AnalyzerIdle
    /\ PlatformIdle

Aggregate ==
    /\ IsNone(aggregated)
    /\ aggregated' = Some(aggregate_scores(stat_results))
    /\ UNCHANGED <<stat_results, category_key_arg, by_category, pct_scores, pct_p,
                   pct_result, clsVars, regVars, scorerVars, analyzerVars, platformVars>>

GroupByCategory ==
    /\ IsNone(by_category)
    /\ by_category' = Some(score_by_category(stat_results, category_key_arg))
    /\ UNCHANGED <<stat_results, category_key_arg, aggregated, pct_scores, pct_p,
                   pct_result, clsVars, regVars, scorerVars, analyzerVars, platformVars>>

NextStatistics == Aggregate \/ GroupByCategory

SpecStatistics == InitStatistics /\ [][NextStatistics]_vars

----------------------------------------------------------------------------
(* Properties of aggregate_scores (SpecStatistics) *)

Aggregated == ~IsNone(aggregated)
Stats == Val(aggregated)

\* the positions of the results that carry a score
ScoredRows(results) == {i \in 1..Len(results) : ~IsNone(results[i].score)}
ScoreAt(results, i) == Val(results[i].score)

\* the k-th smallest of the non-null scores
KthSmallest(results, k) ==
    CHOOSE v \in {ScoreAt(results, i) : i \in ScoredRows(results)} :
        /\ Cardinality({i \in ScoredRows(results) : ScoreAt(results, i) < v}) < k
        /\ k <= Cardinality({i \in ScoredRows(results) : ScoreAt(results, i) <= v})

\* a result without a score
NullRow == ResultRow("t1", "", None)

C21_WitnessNoScores ==
    /\ Aggregated
    /\ Len(stat_results) > 0
    /\ Stats.count = 0
    /\ IsNone(Stats.mean)

----------------------------------------------------------------------------
(* Specification SpecPercentile: one call of percentile *)

\* longest score list given to percentile
MaxPercentileScores == 4

\* p, in percent
PercentPoints == {0, 1, 25, 33, 50, 75, 99, 100}

InitPercentile ==
    /\ pct_scores \in SeqsUpTo({0, 33, 50, ScoreMax}, MaxPercentileScores)
    /\ pct_p \in PercentPoints
    /\ pct_result = None
    /\ stat_results = <<>> /\ category_key_arg = "" /\ aggregated = None
    /\ by_category = None
    /\ ClsIdle
    /\ RegIdle
    /\ ScorerIdle
    /\ AnalyzerIdle
    /\ PlatformIdle

Percentile ==
    /\ IsNone(pct_result)
    /\ pct_result' = Some(percentile(pct_scores, pct_p))
    /\ UNCHANGED <<pct_scores, pct_p, stat_results, category_key_arg, aggregated,
                   by_category, clsVars, regVars, scorerVars, analyzerVars, platformVars>>

NextPercentile == Percentile

SpecPercentile == InitPercentile /\ [][NextPercentile]_vars

----------------------------------------------------------------------------
(* Properties of percentile (SpecPercentile) *)

PercentileTaken == ~IsNone(pct_result)
PercentileValue == Val(pct_result)

\* a <= b on fractions with positive denominators
FracLeq(a, b) == a.num * b.den <= b.num * a.den

SmallestOf(xs) == CHOOSE v \in {xs[i] : i \in 1..Len(xs)} : \A j \in 1..Len(xs) : v <= xs[j]
LargestOf(xs) == CHOOSE v \in {xs[i] : i \in 1..Len(xs)} : \A j \in 1..Len(xs) : xs[j] <= v

----------------------------------------------------------------------------
(* Properties of score_by_category (SpecStatistics) *)

Grouped == ~IsNone(by_category)
Groups == Val(by_category)

\* the positions of the results that have the grouping key with value cat
WithKeyValue(cat) ==
    {i \in 1..Len(stat_results) :
        /\ category_key_arg \in DOMAIN stat_results[i]
        /\ stat_results[i][category_key_arg] = cat}

\* the positions of the results that lack the grouping key
LackingKey == {i \in 1..Len(stat_results) : category_key_arg \notin DOMAIN stat_results[i]}

\* the positions placed in category cat
PlacedIn(cat) == WithKeyValue(cat) \cup (IF cat = "unknown" THEN LackingKey ELSE {})

\* the results at the positions of P, in the order of the list
RowsAt(P) ==
    [k \in 1..Cardinality(P) |->
        stat_results[CHOOSE i \in P : Cardinality({j \in P : j <= i}) = k]]

\* C23: the categories are the values of the grouping key that occur, and
\* "unknown" when a result lacks the key; a category's statistics are the
\* aggregate of the results with that key value (for "unknown" also of those
\* lacking the key), and the counts of the categories add up to the count of
\* the aggregate over all results.
C23_GroupByCategory ==
    Grouped =>
        /\ \A i \in 1..Len(stat_results) :
              IF i \in LackingKey
              THEN "unknown" \in DOMAIN Groups
              ELSE stat_results[i][category_key_arg] \in DOMAIN Groups
        /\ \A cat \in DOMAIN Groups :
              /\ PlacedIn(cat) # {}
              /\ Groups[cat] = aggregate_scores(RowsAt(PlacedIn(cat)))
              /\ Groups[cat].count =
                    Cardinality(PlacedIn(cat) \cap ScoredRows(stat_results))
        /\ SumFn([cat \in DOMAIN Groups |-> Groups[cat].count])
              = aggregate_scores(stat_results).count

\* grouped by tier, a result without the key is counted under "unknown" next
\* to another category
C23_Witness ==
    /\ Grouped
    /\ category_key_arg = "education_tier"
    /\ LackingKey \cap ScoredRows(stat_results) # {}
    /\ "unknown" \in DOMAIN Groups
    /\ Groups["unknown"].count >= 1
    /\ Cardinality(DOMAIN Groups) >= 2

----------------------------------------------------------------------------
(* Specification SpecSession: the analytics operations invoked repeatedly, *)
(* in any order and from several interpreter processes, on arguments that  *)
(* the callers keep.  The order in which a Python set of strings is        *)
(* iterated is fixed by the hash seed of the process, so it is drawn once  *)
(* per process.                                                            *)

\* most invocations in one session
MaxInvocations == 3

Processes == {"p1", "p2"}

SessionRatingArgs ==
    {<<ScorerResult(Some("a"), None, HIGH_SCHOOL, Some(70), None),
       ScorerResult(Some("b"), None, ELEMENTARY, Some(60), Some(2))>>,
     <<ScorerResult(Some("a"), None, ELEMENTARY, None, None)>>}

SessionCurrentArgs ==
    {<<TaskResult("a", "", Some(95)), TaskResult("b", "", Some(57))>>}

SessionBaselineArgs ==
    {<<TaskResult("b", "", Some(100)), TaskResult("a", "", Some(100))>>}

SessionCompareArgs ==
    {<<ModelResult(ModelRecord("m1", "A", FALSE, None),
                   <<ResultRow("t1", GRADUATE, Some(60)), ResultRow("t2", HIGH_SCHOOL, Some(71))>>,
                   None),
       ModelResult(ModelRecord("m2", "B", TRUE, None),
                   <<ResultRow("t1", ELEMENTARY, Some(80))>>, None)>>,
     <<ModelResult(ModelRecord("m1", "A", FALSE, None),
                   <<ResultRow("t1", ELEMENTARY, Some(80)), ResultRow("t2", "", Some(90))>>,
                   None)>>}

SessionTrendArgs ==
    {<<RunSummary("m1", Some(2), Some(57)), RunSummary("m1", Some(1), Some(50)),
       RunSummary("m2", None, Some(50))>>,
     <<RunSummary("m1", None, Some(50)), RunSummary("m1", Some(1), None)>>}

\* the argument lists as the callers hold them
SessionArguments ==
    [task_results |-> task_results, threshold |-> threshold_arg,
     current_results |-> current_results, baseline_results |-> baseline_results,
     model_results |-> model_results, runs |-> runs_arg, window_size |-> window_size_arg]

InitSession ==
    /\ task_results \in SessionRatingArgs
    /\ threshold_arg = DEFAULT_THRESHOLD
    /\ current_results \in SessionCurrentArgs
    /\ baseline_results \in SessionBaselineArgs
    /\ model_results \in SessionCompareArgs
    /\ runs_arg \in SessionTrendArgs
    /\ window_size_arg = DEFAULT_WINDOW_SIZE
    /\ set_order \in [Processes -> get_radar_dimensions(model_results)]
    /\ session_given = SessionArguments
    /\ session_log = <<>>
    /\ tier_arg = "" /\ tier_scores_arg = <<>> /\ scored = None
    /\ regression = None /\ comparison = None /\ trends = None
    /\ ClsIdle /\ RecIdle /\ MaIdle /\ AnomIdle
    /\ StatsIdle
    /\ OrchestratorIdle
    /\ DownloadIdle

\* the call returns: its output is logged; none of the operations assigns to
\* or sorts a list it was given, or touches module state
Returned(operation, process, output) ==
    /\ Len(session_log) < MaxInvocations
    /\ session_log' = Append(session_log,
                             [operation |-> operation, process |-> process,
                              output |-> output])
    /\ UNCHANGED <<clsVars, regVars, scorerVars, analyzerVars, statsVars,
                   session_given, set_order, orchestratorVars, downloadVars>>

InvokeRating(process) ==
    Returned("compute_rating", process,
             compute_grade_level_rating(task_results, threshold_arg))

InvokeDetect(process) ==
    Returned("detect", process, check_regression(current_results, baseline_results))

InvokeCompare(process) ==
    Returned("compare", process, compare_model_results(model_results, set_order[process]))

InvokeTrends(process) ==
    Returned("analyze_trends", process, analyze_trends(runs_arg, window_size_arg))

NextSession ==
    \E process \in Processes :
        \/ InvokeRating(process)
        \/ InvokeDetect(process)
        \/ InvokeCompare(process)
        \/ InvokeTrends(process)

SpecSession == InitSession /\ [][NextSession]_vars

----------------------------------------------------------------------------
(* Properties of the analytics operations as functions (SpecSession) *)

\* C24: whatever was invoked before, two invocations of the same operation
\* (the arguments of a session are the same for all of them) return equal
\* outputs, and the argument lists are as the callers handed them over.
C24_FunctionsOfTheirArguments ==
    /\ SessionArguments = session_given
    /\ \A i \in 1..Len(session_log) : \A j \in 1..Len(session_log) :
          session_log[i].operation = session_log[j].operation
              => session_log[i].output = session_log[j].output

\* what holds: the arguments are never modified, and outputs can differ only
\* between compare invocations of two different processes
SessionRepeatableWithinProcess ==
    /\ SessionArguments = session_given
    /\ \A i \in 1..Len(session_log) : \A j \in 1..Len(session_log) :
          /\ session_log[i].operation = session_log[j].operation
          /\ \/ session_log[i].operation # "compare"
             \/ session_log[i].process = session_log[j].process
          => session_log[i].output = session_log[j].output

\* where they differ, they differ in nothing but radar_dimensions
SessionCompareDiffersInRadarOnly ==
    \A i \in 1..Len(session_log) : \A j \in 1..Len(session_log) :
        /\ session_log[i].operation = "compare"
        /\ session_log[j].operation = "compare"
        => [session_log[i].output EXCEPT !.radar_dimensions = <<>>]
              = [session_log[j].output EXCEPT !.radar_dimensions = <<>>]

----------------------------------------------------------------------------
(* Specification SpecZeroDivisors: the operations that divide, called on   *)
(* arguments that make a divisor zero                                      *)

ZeroWeightArgs ==
    {<<>>,
     <<ScorerResult(Some("a"), None, ELEMENTARY, Some(80), Some(0))>>,
     <<ScorerResult(Some("a"), None, ELEMENTARY, Some(80), Some(0)),
       ScorerResult(Some("b"), None, ELEMENTARY, Some(60), Some(0))>>,
     <<ScorerResult(Some("a"), None, ELEMENTARY, Some(80), None)>>}

NoTierArgs == {<<>>, [t \in {ELEMENTARY} |-> Quotient(80, 1)]}

ZeroBaselineArgs ==
    {<<>>, <<TaskResult("b", "", Some(0))>>, <<TaskResult("b", "", Some(100))>>}

NoScoreArgs == {<<>>, <<ResultRow("t1", "", None)>>, <<ResultRow("t1", "", Some(50))>>}

ZeroFirstScoreArgs ==
    {<<>>,
     <<RunSummary("m1", Some(1), Some(50))>>,
     <<RunSummary("m1", Some(1), Some(0)), RunSummary("m1", Some(2), Some(50))>>,
     <<RunSummary("m1", Some(1), Some(50)), RunSummary("m1", Some(2), Some(57)),
       RunSummary("m1", Some(3), Some(56))>>}

\* window_size is an int, not validated
WindowSizes == {0 - 1, 0, 1, DEFAULT_WINDOW_SIZE}

InitZeroDivisors ==
    /\ task_results \in ZeroWeightArgs
    /\ tier_arg = ELEMENTARY
    /\ tier_scores_arg \in NoTierArgs
    /\ threshold_arg = 0
    /\ scored = None
    /\ current_results \in {<<TaskResult("b", "", Some(57))>>, <<TaskResult("b", "", Some(0))>>}
    /\ baseline_results \in ZeroBaselineArgs
    /\ regression = None
    /\ stat_results \in NoScoreArgs
    /\ category_key_arg = "" /\ aggregated = None /\ by_category = None
    /\ pct_scores = <<>> /\ pct_p = 0 /\ pct_result = None
    /\ runs_arg \in ZeroFirstScoreArgs
    /\ window_size_arg \in WindowSizes
    /\ trends = None
    /\ ClsIdle
    /\ CmpIdle /\ RecIdle /\ MaIdle /\ AnomIdle
    /\ PlatformIdle

NextZeroDivisors ==
    \/ CalculateTierScore
    \/ CalculateOverall
    \/ CheckRegression
    \/ Aggregate
    \/ AnalyzeTrends

SpecZeroDivisors == InitZeroDivisors /\ [][NextZeroDivisors]_vars

----------------------------------------------------------------------------
(* Properties of the zero divisors (SpecZeroDivisors) *)

\* calculate_tier_score was called: it returned a score with a breakdown
TierScoreReturned == ~IsNone(scored) /\ "breakdown" \in DOMAIN Val(scored)
\* calculate_overall_education_score was called: it returned a number
OverallReturned == ~IsNone(scored) /\ "num" \in DOMAIN Val(scored)

\* the scored runs of m1 in the argument, which is in order of date
ScoredRunsGiven == scored_runs(SelectSeq(runs_arg, LAMBDA r : r.model_id = "m1"))

\* the sentinel values of the five zero divisors
SentinelValues ==
    /\ /\ TierScoreReturned
       /\ SumFn([i \in Contributing(task_results, tier_arg) |->
                    WeightOf(task_results[i])]) = 0
       => Val(scored) = [score |-> Zero, breakdown |-> <<>>]
    /\ OverallReturned /\ DOMAIN tier_scores_arg = {} => Val(scored) = Zero
    /\ ~IsNone(regression) =>
          \A i \in 1..Len(Val(regression).tasks) :
              Val(regression).tasks[i].baseline_score = 0
                  => Val(regression).tasks[i].delta_percent = 0
    /\ ~IsNone(aggregated) /\ ScoredRows(stat_results) = {} =>
          Val(aggregated) =
              [mean |-> None, median |-> None, std_dev |-> None, min |-> None,
               max |-> None, count |-> 0, confidence_interval_95 |-> None]
    /\ /\ ~IsNone(trends)
       /\ ~HasRaised(trends)
       /\ Len(ScoredRunsGiven) >= 2
       /\ Val(ScoredRunsGiven[1].overall_score) = 0
       => Val(trends)["m1"].change_percent = Some(0)

\* C25: no operation ends in a division-by-zero failure, and each of the
\* five zero divisors gives its sentinel value.
C25_NoDivisionByZeroFailure ==
    /\ ~IsNone(trends) => ~HasRaised(trends)
    /\ SentinelValues

----------------------------------------------------------------------------
(* Consistency of the regression report (SpecDetect) *)

\* C26: total_tasks_compared is the length of tasks, regression_count is the
\* number of tasks whose severity is not NONE and is at most
\* total_tasks_compared, and has_regression, regression_count > 0 and
\* overall_severity # NONE are equivalent.
C26_ReportConsistent ==
    Checked =>
        /\ Report.total_tasks_compared = Len(Report.tasks)
        /\ Report.regression_count =
              Cardinality({i \in 1..Len(Report.tasks) : Report.tasks[i].severity # SEV_NONE})
        /\ Report.regression_count <= Report.total_tasks_compared
        /\ Report.has_regression <=> Report.regression_count > 0
        /\ Report.regression_count > 0 <=> Report.overall_severity # SEV_NONE

\* three compared tasks, one of them regressed by a minor step only
C26_Witness ==
    /\ Checked
    /\ Report.total_tasks_compared = 3
    /\ Report.regression_count = 1
    /\ Report.has_regression
    /\ Report.overall_severity = SEV_MINOR

----------------------------------------------------------------------------
(* Short series (SpecTrends) *)

\* C27: a model with exactly 2 or 3 scored runs is reported stable whatever
\* its scores, so improving and declining are reported only from 4 scored
\* runs on; change is still the last score minus the first and
\* change_percent that difference in percent of the first score (rounded to
\* 1 decimal).
C27_ShortSeriesAreStable ==
    Analyzed =>
        \A model_id \in DOMAIN Trends :
            LET scores == ScoresInOrder(runs_arg, ScoredPositions(runs_arg, model_id))
                n == Len(scores)
                change == scores[n] - scores[1]
                reported == Trends[model_id]
            IN  /\ n \in {2, 3} =>
                    /\ reported.direction = "stable"
                    /\ reported.change = Some(100 * change)
                    /\ scores[1] # 0 =>
                          /\ 2 * (Val(reported.change_percent) * scores[1] - 1000 * change)
                                <= scores[1]
                          /\ 2 * (1000 * change - Val(reported.change_percent) * scores[1])
                                <= scores[1]
                /\ reported.direction \in {"improving", "declining"} => n >= 4

\* two scored runs 7 points apart: stable, with the change reported
C27_Witness ==
    /\ Analyzed
    /\ "m1" \in DOMAIN Trends
    /\ Trends["m1"].data_points = 2
    /\ Trends["m1"].direction = "stable"
    /\ Trends["m1"].change = Some(700)

\* four scored runs are enough for a direction other than stable
C27_WitnessFourRuns ==
    /\ Analyzed
    /\ "m1" \in DOMAIN Trends
    /\ Trends["m1"].data_points = 4
    /\ Trends["m1"].direction = "improving"

----------------------------------------------------------------------------
(* core/orchestrator.py *)
(*                                                                         *)
(* start_evaluation and cancel_run are coroutines: each action below is    *)
(* the code between two points where the coroutine can be suspended at an  *)
(* await that matters for the run record.  Timestamps are the token "now". *)

RUN_ID == "r1"

\* storage.create_run: the row inserted into eval_runs
new_run_record(tasks) ==
    [status |-> "pending", progress_percent |-> 0, tasks_total |-> Len(tasks),
     tasks_completed |-> 0, started_at |-> None, completed_at |-> None,
     error_message |-> "", overall_score |-> None, overall_metrics |-> None]

\* storage.update_run: UPDATE eval_runs SET ... WHERE id = ?, whatever the
\* row holds
update_run(record, updates) ==
    [k \in DOMAIN record |-> IF k \in DOMAIN updates THEN updates[k] ELSE record[k]]

\* the checks of start_evaluation before create_run
precondition_holds(request) ==
    /\ request.model_found
    /\ request.suite_found
    /\ request.plugin_found
    /\ request.model_valid
    /\ request.tasks # <<>>

\* a result of the plugin with the task metadata added
task_result(task, score) ==
    [run_id |-> RUN_ID, task_id |-> task.id, score |-> Some(score), status |-> "completed",
     error_message |-> "", education_tier |-> task.education_tier,
     weight |-> task.weight, task_name |-> Some(task.name), name |-> None]

\* error_result
error_result(task) ==
    [run_id |-> RUN_ID, task_id |-> task.id, score |-> None, status |-> "failed",
     error_message |-> "plugin error", education_tier |-> task.education_tier,
     weight |-> task.weight, task_name |-> Some(task.name), name |-> None]

\* faulty variant of results_of_task: a failing task leaves no result
results_of_task_dropping_failures(task, outcome) ==
    IF outcome.kind = "raises" THEN <<>>
    ELSE [k \in 1..Len(outcome.scores) |-> task_result(task, outcome.scores[k])]

\* what one pass of the loop appends to all_task_results and stores
results_of_task(task, outcome) ==
    IF outcome.kind = "raises" THEN <<error_result(task)>>
    ELSE [k \in 1..Len(outcome.scores) |-> task_result(task, outcome.scores[k])]

\* the updates of the final update_run; overall_score is in tenths
completion_updates(results, tasks) ==
    LET completed_results == non_null_scores(results)
    IN  [status |-> "completed",
         overall_score |->
            Some(IF completed_results # <<>>
                 THEN RoundHalfEven(10 * SumSeq(completed_results), Len(completed_results))
                 ELSE 0),
         overall_metrics |->
            Some([grade_level |-> compute_grade_level_rating(results, DEFAULT_THRESHOLD),
                  tasks_completed |-> Len(completed_results),
                  tasks_failed |-> Len(results) - Len(completed_results)]),
         progress_percent |-> 100,
         tasks_completed |-> Len(tasks),
         completed_at |-> Some("now")]

----------------------------------------------------------------------------
(* Specification SpecEvaluation: one call of start_evaluation *)

\* most tasks in the suite
MaxSuiteTasks == 2

\* the task rows of the suite: the config column is a JSON string
SuiteTask(i, config) ==
    [id |-> i, name |-> IF i % 2 = 1 THEN "t1" ELSE "t2",
     education_tier |-> IF i % 2 = 1 THEN ELEMENTARY ELSE HIGH_SCHOOL,
     weight |-> None, config |-> config]

TaskConfigs == {"{}", "{malformed"}

\* plugin.run_evaluation returns a list of results or raises
PluginOutcomes ==
    {[kind |-> "raises", scores |-> <<>>],
     [kind |-> "returns", scores |-> <<>>],
     [kind |-> "returns", scores |-> <<80>>],
     [kind |-> "returns", scores |-> <<60, 65>>]}

Requests ==
    {[model_found |-> mf, suite_found |-> sf, plugin_found |-> pf, model_valid |-> mv,
      tasks |-> [i \in 1..n |-> SuiteTask(i, configs[i])]] :
        mf \in BOOLEAN, sf \in BOOLEAN, pf \in BOOLEAN, mv \in BOOLEAN,
        n \in 0..MaxSuiteTasks, configs \in [1..MaxSuiteTasks -> TaskConfigs]}

InitEvaluation ==
    /\ eval_request \in {Some(request) : request \in Requests}
    /\ plugin_outcomes \in [1..Len(Val(eval_request).tasks) -> PluginOutcomes]
    /\ eval_pc = "validate"
    /\ eval_task_index = 0
    /\ all_task_results = <<>>
    /\ eval_outcome = None
    /\ eval_error = ""
    /\ stored_results = <<>>
    /\ run_record = None
    /\ CancelIdle
    /\ ClsIdle /\ RegIdle /\ ScorerIdle /\ AnalyzerIdle /\ StatsIdle /\ SessionIdle
    /\ DownloadIdle

\* lines 67-94: get_model, get_suite, find_plugin_for_model_type,
\* validate_model, get_tasks_for_suite; none of them writes
ValidateRequest ==
    /\ eval_pc = "validate"
    /\ IF precondition_holds(Val(eval_request))
       THEN /\ eval_pc' = "create_run"
            /\ UNCHANGED eval_outcome
       ELSE /\ eval_pc' = "returned"
            /\ eval_outcome' = Raised("ValueError")
    /\ UNCHANGED <<eval_request, plugin_outcomes, eval_task_index, all_task_results,
                   eval_error, stored_results, run_record, cancelVars,
                   clsVars, regVars, scorerVars, analyzerVars, statsVars, sessionVars, downloadVars>>

\* lines 96-106
CreateRun ==
    /\ eval_pc = "create_run"
    /\ run_record' = Some(new_run_record(Val(eval_request).tasks))
    /\ eval_pc' = "update_running"
    /\ UNCHANGED <<eval_request, plugin_outcomes, eval_task_index, all_task_results,
                   eval_outcome, eval_error, stored_results, cancelVars,
                   clsVars, regVars, scorerVars, analyzerVars, statsVars, sessionVars, downloadVars>>

\* lines 136-147
MarkRunning ==
    /\ eval_pc = "update_running"
    /\ run_record' = Some(update_run(Val(run_record),
                                     [status |-> "running", started_at |-> Some("now")]))
    /\ eval_task_index' = 1
    /\ eval_pc' = "run_task"
    /\ UNCHANGED <<eval_request, plugin_outcomes, all_task_results,
                   eval_outcome, eval_error, stored_results, cancelVars,
                   clsVars, regVars, scorerVars, analyzerVars, statsVars, sessionVars, downloadVars>>

\* lines 149-217, one pass of the loop: json.loads of the config is outside
\* the try, so its exception leaves _execute_run; the plugin's exception is
\* caught and recorded
RunTask ==
    /\ eval_pc = "run_task"
    /\ LET tasks == Val(eval_request).tasks
           task == tasks[eval_task_index]
           results == results_of_task(task, plugin_outcomes[eval_task_index])
       IN  IF task.config = "{malformed"
           THEN /\ eval_error' = "JSONDecodeError"
                /\ eval_pc' = "handle_failure"
                /\ UNCHANGED <<eval_task_index, all_task_results, stored_results>>
           ELSE /\ stored_results' = stored_results \o results
                /\ all_task_results' = all_task_results \o results
                /\ eval_task_index' = eval_task_index + 1
                /\ eval_pc' = IF eval_task_index = Len(tasks) THEN "complete" ELSE "run_task"
                /\ UNCHANGED eval_error
    /\ UNCHANGED <<eval_request, plugin_outcomes, eval_outcome, run_record, cancelVars,
                   clsVars, regVars, scorerVars, analyzerVars, statsVars, sessionVars, downloadVars>>

\* lines 163-181, on_progress: the plugin may call it while it runs the task
\* at position eval_task_index; percent is taken at idx = 0 and floored
ReportProgress ==
    /\ eval_pc = "run_task"
    /\ Val(eval_request).tasks[eval_task_index].config # "{malformed"
    /\ run_record' = Some(update_run(Val(run_record),
            [progress_percent |->
                ((eval_task_index - 1) * 100) \div Len(Val(eval_request).tasks),
             tasks_completed |-> eval_task_index - 1]))
    /\ UNCHANGED <<eval_request, plugin_outcomes, eval_pc, eval_task_index, all_task_results,
                   eval_outcome, eval_error, stored_results, cancelVars,
                   clsVars, regVars, scorerVars, analyzerVars, statsVars, sessionVars, downloadVars>>

\* lines 219-250
CompleteRun ==
    /\ eval_pc = "complete"
    /\ \E updates \in {completion_updates(all_task_results, Val(eval_request).tasks)} :
            run_record' = Some(update_run(Val(run_record), updates))
    /\ eval_pc' = "notify"
    /\ UNCHANGED <<eval_request, plugin_outcomes, eval_task_index, all_task_results,
                   eval_outcome, eval_error, stored_results, cancelVars,
                   clsVars, regVars, scorerVars, analyzerVars, statsVars, sessionVars, downloadVars>>

\* lines 252-263 and 123: the listeners' exceptions are caught
NotifyCompletion ==
    /\ eval_pc = "notify"
    /\ eval_pc' = "returned"
    /\ eval_outcome' = Some(RUN_ID)
    /\ UNCHANGED <<eval_request, plugin_outcomes, eval_task_index, all_task_results,
                   eval_error, stored_results, run_record, cancelVars,
                   clsVars, regVars, scorerVars, analyzerVars, statsVars, sessionVars, downloadVars>>

\* lines 111-123
RecordFailure ==
    /\ eval_pc = "handle_failure"
    /\ run_record' = Some(update_run(Val(run_record),
                                     [status |-> "failed", error_message |-> eval_error,
                                      completed_at |-> Some("now")]))
    /\ eval_pc' = "returned"
    /\ eval_outcome' = Some(RUN_ID)
    /\ UNCHANGED <<eval_request, plugin_outcomes, eval_task_index, all_task_results,
                   eval_error, stored_results, cancelVars,
                   clsVars, regVars, scorerVars, analyzerVars, statsVars, sessionVars, downloadVars>>

StartEvaluation ==
    \/ ValidateRequest
    \/ CreateRun
    \/ MarkRunning
    \/ ReportProgress
    \/ RunTask
    \/ CompleteRun
    \/ NotifyCompletion
    \/ RecordFailure

NextEvaluation == StartEvaluation

SpecEvaluation == InitEvaluation /\ [][NextEvaluation]_vars

\* the positions of start_evaluation
EvalPositions ==
    {"validate", "create_run", "update_running", "run_task", "complete", "notify",
     "handle_failure", "returned"}

\* the coroutine leaves the await it is suspended at
Resumed ==
    /\ eval_pc # "returned"
    /\ eval_pc' \in EvalPositions
    /\ eval_task_index' \in 0..(MaxSuiteTasks + 1)

\* the event loop resumes a coroutine whose await has finished, and the
\* storage and the plugin answer every call: a coroutine that has not
\* returned does not stay at one await for ever
FairSpecEvaluation == SpecEvaluation /\ WF_<<eval_pc, eval_task_index>>(Resumed)

Request == Val(eval_request)

RunStatus == IF IsNone(run_record) THEN "absent" ELSE Val(run_record).status

Raising(k) == plugin_outcomes[k].kind = "raises"

Malformed(k) == Request.tasks[k].config = "{malformed"

\* the tasks whose pass of the loop has finished
Executed == 1..(eval_task_index - 1)

RowsOfTask(k) == SelectSeq(all_task_results, LAMBDA row : row.task_id = k)

RECURSIVE ReturnedScores(_)
ReturnedScores(k) ==
    IF k = 0 THEN <<>>
    ELSE ReturnedScores(k - 1)
         \o (IF Raising(k) THEN <<>> ELSE plugin_outcomes[k].scores)

\* the results follow the suite order, a raising task leaves one failed row
\* with a null score and a returning task its scores
ResultsRecorded ==
    /\ eval_pc \in EvalPositions
    /\ eval_pc = "run_task" => eval_task_index \in 1..Len(Request.tasks)
    /\ stored_results = all_task_results
    /\ \A i, j \in 1..Len(all_task_results) :
            i < j => all_task_results[i].task_id <= all_task_results[j].task_id
    /\ \A i \in 1..Len(all_task_results) : all_task_results[i].task_id \in Executed
    /\ \A k \in Executed :
            IF Raising(k)
            THEN /\ Len(RowsOfTask(k)) = 1
                 /\ IsNone(RowsOfTask(k)[1].score)
                 /\ RowsOfTask(k)[1].status = "failed"
            ELSE /\ Len(RowsOfTask(k)) = Len(plugin_outcomes[k].scores)
                 /\ \A i \in 1..Len(RowsOfTask(k)) :
                        /\ RowsOfTask(k)[i].score = Some(plugin_outcomes[k].scores[i])
                        /\ RowsOfTask(k)[i].status = "completed"

CompletedProperly ==
    RunStatus = "completed" =>
        LET n == Len(Request.tasks)
            scores == ReturnedScores(n)
            metrics == Val(Val(run_record).overall_metrics)
        IN  /\ Executed = 1..n
            /\ \A k \in 1..n : ~Malformed(k)
            /\ metrics.tasks_failed = Cardinality({k \in 1..n : Raising(k)})
            /\ metrics.tasks_completed = Len(scores)
            /\ Val(run_record).overall_score =
                    Some(IF scores = <<>> THEN 0
                         ELSE RoundHalfEven(10 * SumSeq(scores), Len(scores)))
            /\ Val(run_record).error_message = ""

FailedOnlyOnEscape ==
    RunStatus = "failed" =>
        /\ eval_task_index \in 1..Len(Request.tasks)
        /\ Malformed(eval_task_index)
        /\ \A k \in Executed : ~Malformed(k)
        /\ Val(run_record).error_message = "JSONDecodeError"

PreconditionFailureCreatesNothing ==
    /\ ~precondition_holds(Request) => IsNone(run_record)
    /\ (eval_pc = "returned" /\ ~precondition_holds(Request)) =>
            eval_outcome = Raised("ValueError")
    /\ HasRaised(eval_outcome) => IsNone(run_record)

\* the status moves absent -> pending -> running -> completed or failed
StatusStep ==
    LET before == RunStatus
        after == IF IsNone(run_record') THEN "absent" ELSE Val(run_record').status
    IN  \/ after = before
        \/ before = "absent" /\ after = "pending"
        \/ before = "pending" /\ after = "running"
        \/ before = "running" /\ after \in {"completed", "failed"}

RunEnded ==
    /\ eval_pc = "returned"
    /\ precondition_holds(Request) => RunStatus \in {"completed", "failed"}
    /\ RunStatus = "failed" <=> (precondition_holds(Request)
                                 /\ \E k \in 1..Len(Request.tasks) : Malformed(k))

\* C28: after create_run the run goes pending -> running and ends completed
\* or failed; a plugin exception becomes a failed row with a null score, the
\* later tasks still run in suite order and the run ends completed with
\* tasks_failed counting the raising tasks and the overall score averaging
\* the non-null scores (0 when none); the run ends failed, with the error
\* message stored, only when an exception escapes the per-task handling; a
\* precondition failure raises before any run record exists
C28_RunLifecycle ==
    /\ [](ResultsRecorded /\ CompletedProperly /\ FailedOnlyOnEscape
          /\ PreconditionFailureCreatesNothing)
    /\ [][StatusStep]_vars
    /\ <>[]RunEnded

\* a run that ended completed although its first task raised and its second
\* task returned a score
C28_Witness ==
    /\ eval_pc = "returned"
    /\ RunStatus = "completed"
    /\ Len(Request.tasks) = 2
    /\ Raising(1)
    /\ plugin_outcomes[2].scores = <<80>>
    /\ Val(Val(run_record).overall_metrics).tasks_failed = 1
    /\ Val(run_record).overall_score = Some(800)

\* a run that ended failed because a task's config could not be parsed
C28_WitnessFailed ==
    /\ eval_pc = "returned"
    /\ RunStatus = "failed"
    /\ Val(run_record).error_message = "JSONDecodeError"
    /\ eval_outcome = Some(RUN_ID)

\* a request that was rejected before create_run
C28_WitnessRejected ==
    /\ eval_pc = "returned"
    /\ HasRaised(eval_outcome)
    /\ IsNone(run_record)

----------------------------------------------------------------------------
(* Specification SpecCancel: cancel_run called while start_evaluation runs, *)
(* or on a run that an earlier call left in the storage                     *)

\* the run ids passed to cancel_run: the run of the request and an id the
\* storage does not hold
CancelTargets == {RUN_ID, "r0"}

\* the statuses cancel_run acts on
CANCELLABLE == {"pending", "queued", "running"}

\* the statuses of the runs that earlier calls left behind
StoredStatuses == {"pending", "running", "completed", "failed", "cancelled"}

\* the requests that pass the checks of start_evaluation
ValidRequests == {request \in Requests : precondition_holds(request)}

InitCancel ==
    /\ eval_request \in {Some(request) : request \in ValidRequests}
    /\ plugin_outcomes \in [1..Len(Val(eval_request).tasks) -> PluginOutcomes]
    /\ \/ /\ eval_pc = "validate"
          /\ run_record = None
       \/ /\ eval_pc = "returned"
          /\ run_record \in {Some(update_run(new_run_record(Val(eval_request).tasks),
                                             [status |-> status])) :
                                status \in StoredStatuses}
    /\ eval_task_index = 0
    /\ all_task_results = <<>>
    /\ eval_outcome = None
    /\ eval_error = ""
    /\ stored_results = <<>>
    /\ CancelIdle
    /\ ClsIdle /\ RegIdle /\ ScorerIdle /\ AnalyzerIdle /\ StatsIdle /\ SessionIdle
    /\ DownloadIdle

\* storage.get_run
get_run(run_id) == IF run_id = RUN_ID THEN run_record ELSE None

\* line 265: cancel_run is called
CancelRun(run_id) ==
    /\ cancel_pc = "idle"
    /\ cancel_pc' = "get_run"
    /\ cancel_target' = run_id
    /\ cancel_seen' = None
    /\ UNCHANGED <<runVars, clsVars, regVars, scorerVars, analyzerVars, statsVars,
                   sessionVars, downloadVars>>

\* lines 267-268: the row is read and its status tested
CancelGetRun ==
    /\ cancel_pc = "get_run"
    /\ LET run == get_run(cancel_target)
       IN  /\ cancel_seen' = IF IsNone(run) THEN None ELSE Some(Val(run).status)
           /\ cancel_pc' = IF ~IsNone(run) /\ Val(run).status \in CANCELLABLE
                           THEN "update_run" ELSE "idle"
    /\ UNCHANGED <<cancel_target, runVars, clsVars, regVars, scorerVars, analyzerVars,
                   statsVars, sessionVars, downloadVars>>

\* lines 269-275: the row is updated, whatever it holds by now
CancelUpdateRun ==
    /\ cancel_pc = "update_run"
    /\ run_record' = Some(update_run(Val(run_record),
                                     [status |-> "cancelled", completed_at |-> Some("now")]))
    /\ cancel_pc' = "idle"
    /\ UNCHANGED <<cancel_target, cancel_seen, eval_request, plugin_outcomes, eval_pc,
                   eval_task_index, all_task_results, eval_outcome, eval_error,
                   stored_results, clsVars, regVars, scorerVars, analyzerVars,
                   statsVars, sessionVars, downloadVars>>

NextCancel ==
    \/ StartEvaluation
    \/ \E run_id \in CancelTargets : CancelRun(run_id)
    \/ CancelGetRun
    \/ CancelUpdateRun

SpecCancel == InitCancel /\ [][NextCancel]_vars

\* cancel_run writes only after it has read a cancellable status, and a call
\* for an unknown run or one that read completed, failed or cancelled
\* writes nothing
CancelWritesOnlyAfterCancellableRead ==
    /\ cancel_pc = "update_run" =>
            /\ cancel_target = RUN_ID
            /\ ~IsNone(cancel_seen)
            /\ Val(cancel_seen) \in CANCELLABLE
    /\ cancel_target # RUN_ID => cancel_pc # "update_run"

\* C29: cancel_run sets a run to cancelled only when it is pending, queued
\* or running, and a run that has been set to cancelled stays cancelled: the
\* execution interleaved with the cancel does not overwrite the status with
\* completed or failed
C29_CancelledStaysCancelled ==
    /\ [](CancelWritesOnlyAfterCancellableRead)
    /\ [][RunStatus = "cancelled" => RunStatus' \notin {"completed", "failed"}]_vars

----------------------------------------------------------------------------
(* services/download.py *)
(*                                                                         *)
(* One model row and the DownloadService of the server process.  The       *)
(* requests POST /models/{id}/download are coroutines of one event loop:   *)
(* each action is the code between two awaits.  A background task has the  *)
(* name of the caller whose start_download created it.                     *)

\* the concurrent requests for the model
Callers == {"c1", "c2"}

\* model rows: the first three fail a check of start_download
DownloadSources == {"missing", "no_source_uri", "not_huggingface", "huggingface"}

\* download_status after reset_stale_downloads
RestingStatuses == {"none", "cached", "failed"}

\* get_status(model_id)["is_active"]
is_active == ~IsNone(dl_active)

\* _run_download has been created and has not reached the end of finally
TaskRunning(task) == dl_task_pc[task] \in {"created", "downloading", "downloaded", "updated"}

\* snapshot_download is about to run or runs in its thread
Downloading(task) == dl_task_pc[task] \in {"created", "downloading"}

InitDownload ==
    /\ dl_source \in DownloadSources
    /\ dl_status \in RestingStatuses
    /\ dl_active = None
    /\ dl_event_set = [task \in Callers |-> FALSE]
    /\ dl_start_pc = [caller \in Callers |-> "idle"]
    /\ dl_start_outcome = [caller \in Callers |-> None]
    /\ dl_task_pc = [task \in Callers |-> "absent"]
    /\ dl_task_result = [task \in Callers |-> ""]
    /\ ClsIdle /\ RegIdle /\ ScorerIdle /\ AnalyzerIdle /\ StatsIdle /\ SessionIdle
    /\ OrchestratorIdle

\* line 33: a request calls start_download; a caller's next call comes after
\* the task of its previous call has ended
CallStartDownload(caller) ==
    /\ dl_start_pc[caller] = "idle"
    /\ ~TaskRunning(caller)
    /\ dl_start_pc' = [dl_start_pc EXCEPT ![caller] = "get_model"]
    /\ dl_start_outcome' = [dl_start_outcome EXCEPT ![caller] = None]
    /\ UNCHANGED <<dl_source, dl_status, dl_active, dl_event_set, dl_task_pc, dl_task_result,
                   clsVars, regVars, scorerVars, analyzerVars, statsVars, sessionVars,
                   orchestratorVars>>

\* lines 35-47: the row is read and checked
StartGetModel(caller) ==
    /\ dl_start_pc[caller] = "get_model"
    /\ IF dl_source = "huggingface" /\ dl_status # "downloading"
       THEN /\ dl_start_pc' = [dl_start_pc EXCEPT ![caller] = "update_model"]
            /\ UNCHANGED dl_start_outcome
       ELSE /\ dl_start_pc' = [dl_start_pc EXCEPT ![caller] = "idle"]
            /\ dl_start_outcome' = [dl_start_outcome EXCEPT ![caller] = Raised("ValueError")]
    /\ UNCHANGED <<dl_source, dl_status, dl_active, dl_event_set, dl_task_pc, dl_task_result,
                   clsVars, regVars, scorerVars, analyzerVars, statsVars, sessionVars,
                   orchestratorVars>>

\* lines 49-53: the row is written
StartUpdateModel(caller) ==
    /\ dl_start_pc[caller] = "update_model"
    /\ dl_status' = "downloading"
    /\ dl_start_pc' = [dl_start_pc EXCEPT ![caller] = "register"]
    /\ UNCHANGED <<dl_source, dl_active, dl_event_set, dl_start_outcome, dl_task_pc,
                   dl_task_result,
                   clsVars, regVars, scorerVars, analyzerVars, statsVars, sessionVars,
                   orchestratorVars>>

\* lines 55-58: a new event is put in _active and the task is created
StartRegister(caller) ==
    /\ dl_start_pc[caller] = "register"
    /\ dl_event_set' = [dl_event_set EXCEPT ![caller] = FALSE]
    /\ dl_active' = Some(caller)
    /\ dl_task_pc' = [dl_task_pc EXCEPT ![caller] = "created"]
    /\ dl_task_result' = [dl_task_result EXCEPT ![caller] = ""]
    /\ dl_start_pc' = [dl_start_pc EXCEPT ![caller] = "idle"]
    /\ dl_start_outcome' = [dl_start_outcome EXCEPT ![caller] = Some("started")]
    /\ UNCHANGED <<dl_source, dl_status,
                   clsVars, regVars, scorerVars, analyzerVars, statsVars, sessionVars,
                   orchestratorVars>>

\* lines 65-69: after the first broadcast the download starts in a thread
TaskStartThread(task) ==
    /\ dl_task_pc[task] = "created"
    /\ dl_task_pc' = [dl_task_pc EXCEPT ![task] = "downloading"]
    /\ UNCHANGED <<dl_source, dl_status, dl_active, dl_event_set, dl_start_pc,
                   dl_start_outcome, dl_task_result,
                   clsVars, regVars, scorerVars, analyzerVars, statsVars, sessionVars,
                   orchestratorVars>>

\* lines 97-107: snapshot_download returns a path or raises
TaskThreadEnds(task) ==
    /\ dl_task_pc[task] = "downloading"
    /\ \E result \in {"path", "raised"} :
            dl_task_result' = [dl_task_result EXCEPT ![task] = result]
    /\ dl_task_pc' = [dl_task_pc EXCEPT ![task] = "downloaded"]
    /\ UNCHANGED <<dl_source, dl_status, dl_active, dl_event_set, dl_start_pc,
                   dl_start_outcome,
                   clsVars, regVars, scorerVars, analyzerVars, statsVars, sessionVars,
                   orchestratorVars>>

\* lines 71-92: the row is written according to the task's own event
TaskUpdateModel(task) ==
    /\ dl_task_pc[task] = "downloaded"
    /\ dl_status' = IF dl_task_result[task] = "raised" THEN "failed"
                    ELSE IF dl_event_set[task] THEN "none"
                    ELSE "cached"
    /\ dl_task_pc' = [dl_task_pc EXCEPT ![task] = "updated"]
    /\ UNCHANGED <<dl_source, dl_active, dl_event_set, dl_start_pc, dl_start_outcome,
                   dl_task_result,
                   clsVars, regVars, scorerVars, analyzerVars, statsVars, sessionVars,
                   orchestratorVars>>

\* lines 77, 85, 93-95: after the last broadcast, finally pops the entry of
\* the model, whichever task's event it holds
TaskFinally(task) ==
    /\ dl_task_pc[task] = "updated"
    /\ dl_active' = None
    /\ dl_task_pc' = [dl_task_pc EXCEPT ![task] = "ended"]
    /\ UNCHANGED <<dl_source, dl_status, dl_event_set, dl_start_pc, dl_start_outcome,
                   dl_task_result,
                   clsVars, regVars, scorerVars, analyzerVars, statsVars, sessionVars,
                   orchestratorVars>>

\* lines 109-113
CancelDownload ==
    /\ is_active
    /\ ~dl_event_set[Val(dl_active)]
    /\ dl_event_set' = [dl_event_set EXCEPT ![Val(dl_active)] = TRUE]
    /\ UNCHANGED <<dl_source, dl_status, dl_active, dl_start_pc, dl_start_outcome,
                   dl_task_pc, dl_task_result,
                   clsVars, regVars, scorerVars, analyzerVars, statsVars, sessionVars,
                   orchestratorVars>>

NextDownload ==
    \/ \E caller \in Callers : CallStartDownload(caller)
    \/ \E caller \in Callers : StartGetModel(caller)
    \/ \E caller \in Callers : StartUpdateModel(caller)
    \/ \E caller \in Callers : StartRegister(caller)
    \/ \E task \in Callers : TaskStartThread(task)
    \/ \E task \in Callers : TaskThreadEnds(task)
    \/ \E task \in Callers : TaskUpdateModel(task)
    \/ \E task \in Callers : TaskFinally(task)
    \/ CancelDownload

SpecDownload == InitDownload /\ [][NextDownload]_vars

\* a start_download that reads download_status downloading raises and
\* creates no task
RejectedWhenReadDownloading ==
    [][\A caller \in Callers :
         (/\ dl_start_pc[caller] = "get_model"
          /\ dl_start_pc'[caller] # "get_model"
          /\ dl_status = "downloading") =>
            /\ HasRaised(dl_start_outcome'[caller])
            /\ dl_start_pc'[caller] = "idle"
            /\ dl_task_pc' = dl_task_pc]_vars

\* a download runs in its thread while get_status reports is_active false
RunningButNotActive == ~is_active /\ \E task \in Callers : Downloading(task)

\* when no call and no task is under way the row is at rest and nothing is
\* registered
EndsAtRest ==
    (\A caller \in Callers : dl_start_pc[caller] = "idle" /\ ~TaskRunning(caller)) =>
        /\ dl_status \in RestingStatuses
        /\ ~is_active

\* is_active only while a task of the model runs
ActiveOnlyWhileRunning == is_active => \E task \in Callers : TaskRunning(task)

\* C30: at most one download per model is in progress at any time, also
\* when two start_download calls interleave at their awaits; every started
\* download ends with download_status cached, none or failed and the model
\* removed from the active set, and is_active is true only while a download
\* of the model runs
C30_AtMostOneDownload ==
    /\ Cardinality({task \in Callers : TaskRunning(task)}) <= 1
    /\ EndsAtRest
    /\ ActiveOnlyWhileRunning

====
